---- MODULE Spec2Model ----
(***************************************************************************)
(* Model of the NIST thermodynamic unit converter: the Conversion Engine   *)
(* (the Sconvert and Econvert functions), the atomic mass list             *)
(* (update_atomic_mass, create_atomic_mass_list), the four conversion      *)
(* tables (the create_conversion_table functions) and the table lookup     *)
(* (access_factor_from_table, get_factor_from_table), as found in          *)
(* NIST_Conversion.py and in its second copy scripts.py.                   *)
(*                                                                         *)
(* Numbers.  Python computes in IEEE-754 binary doubles and so does the    *)
(* model: a float is a 53-bit mantissa and an exponent, products and       *)
(* quotients are rounded to nearest-even, and the texts of numbers         *)
(* ("{:.6f}", "{:.6E}", "{}", float(), int(), str()) are computed digit by *)
(* digit from the double's exact value.  All numbers of the program are    *)
(* positive and far from overflow and underflow.                           *)
(***************************************************************************)
EXTENDS Integers, Sequences, FiniteSets, TLC

RECURSIVE Call(_, _)

(***************************************************************************)
(* Naturals of any size: sequences of limbs in base 2^15, least            *)
(* significant first, <<>> being 0                                         *)
(***************************************************************************)
(***************************************************************************)
(* Natural numbers of any size: sequences of limbs in base 2^15, least     *)
(* significant limb first, without leading zero limbs (0 is <<>>).  TLC's  *)
(* integers are 32-bit; a double's 53-bit mantissa needs more.             *)
(***************************************************************************)
Base == 2^15
Min(a, b) == IF a < b THEN a ELSE b
Max(a, b) == IF a > b THEN a ELSE b
Rev(s) == [i \in 1..Len(s) |-> s[Len(s) + 1 - i]]
Zeros(n) == IF n <= 0 THEN <<>> ELSE [i \in 1..n |-> 0]

BigNorm(a) ==
    LET nz == {i \in 1..Len(a) : a[i] # 0}
    IN IF nz = {} THEN <<>>
       ELSE SubSeq(a, 1, CHOOSE i \in nz : \A j \in nz : j <= i)

RECURSIVE FromNat(_)
FromNat(n) == IF n = 0 THEN <<>> ELSE <<n % Base>> \o FromNat(n \div Base)

\* -1, 0, 1 as a < b, a = b, a > b
BigCmp(a, b) ==
    IF Len(a) # Len(b) THEN (IF Len(a) < Len(b) THEN -1 ELSE 1)
    ELSE LET df == {i \in 1..Len(a) : a[i] # b[i]}
         IN IF df = {} THEN 0
            ELSE LET t == CHOOSE i \in df : \A j \in df : j <= i
                 IN IF a[t] < b[t] THEN -1 ELSE 1

Limb(a, i) == IF i <= Len(a) THEN a[i] ELSE 0

RECURSIVE AddFrom(_, _, _, _)
AddFrom(a, b, i, carry) ==
    IF i > Len(a) /\ i > Len(b)
    THEN (IF carry = 0 THEN <<>> ELSE <<carry>>)
    ELSE LET t == Limb(a, i) + Limb(b, i) + carry
         IN <<t % Base>> \o AddFrom(a, b, i + 1, t \div Base)
BigAdd(a, b) == AddFrom(a, b, 1, 0)

\* a - b, for a >= b
RECURSIVE SubFrom(_, _, _, _)
SubFrom(a, b, i, borrow) ==
    IF i > Len(a) THEN <<>>
    ELSE LET t == a[i] - Limb(b, i) - borrow
         IN <<(t + Base) % Base>> \o SubFrom(a, b, i + 1, IF t < 0 THEN 1 ELSE 0)
BigSub(a, b) == BigNorm(SubFrom(a, b, 1, 0))

\* a * f + carry, for 0 <= f < Base
RECURSIVE MulSmallFrom(_, _, _, _)
MulSmallFrom(a, f, i, carry) ==
    IF i > Len(a) THEN (IF carry = 0 THEN <<>> ELSE <<carry>>)
    ELSE LET t == a[i] * f + carry
         IN <<t % Base>> \o MulSmallFrom(a, f, i + 1, t \div Base)
BigMulSmall(a, f) == IF f = 0 THEN <<>> ELSE MulSmallFrom(a, f, 1, 0)

\* <<a div d, a mod d>>, for 0 < d < Base
RECURSIVE DivSmallFrom(_, _, _, _)
DivSmallFrom(a, d, i, rem) ==
    IF i = 0 THEN <<rem>>
    ELSE LET t == rem * Base + a[i]
         IN <<t \div d>> \o DivSmallFrom(a, d, i - 1, t % d)
BigDivSmall(a, d) ==
    LET r == DivSmallFrom(a, d, Len(a), 0)
    IN <<BigNorm(Rev(SubSeq(r, 1, Len(a)))), r[Len(a) + 1]>>

BigMul(a, b) == Call("BigMul", <<a, b>>)
BigMul_def(a, b) ==
    IF a = <<>> \/ b = <<>> THEN <<>>
    ELSE IF Len(b) = 1 THEN BigMulSmall(a, b[1])
    ELSE BigAdd(BigMulSmall(a, Head(b)), <<0>> \o BigMul(a, Tail(b)))

BitLenSmall(n) == CHOOSE k \in 1..15 : 2^(k - 1) <= n /\ n < 2^k
BitLen(a) == IF a = <<>> THEN 0 ELSE (Len(a) - 1) * 15 + BitLenSmall(a[Len(a)])

\* a * 2^s
ShiftL(a, s) ==
    IF a = <<>> THEN <<>> ELSE Zeros(s \div 15) \o BigMulSmall(a, 2^(s % 15))
\* a div 2^s, and whether a nonzero remainder was dropped
ShiftR(a, s) == Call("ShiftR", <<a, s>>)
ShiftR_def(a, s) ==
    LET k == s \div 15
        low == SubSeq(a, 1, Min(k, Len(a)))
        high == IF k >= Len(a) THEN <<>> ELSE SubSeq(a, k + 1, Len(a))
        r == BigDivSmall(high, 2^(s % 15))
    IN [q |-> r[1], sticky |-> r[2] # 0 \/ \E i \in 1..Len(low) : low[i] # 0]

\* the quotient digit cur div d, for cur < d * Base and d with a top limb of at
\* least Base / 2: the estimate from the top limbs is at most 2 too large
RECURSIVE FixDigit(_, _, _)
FixDigit(cur, d, q) ==
    IF BigCmp(BigMulSmall(d, q), cur) <= 0 THEN q ELSE FixDigit(cur, d, q - 1)
QuotDigit(cur, d) == Call("QuotDigit", <<cur, d>>)
QuotDigit_def(cur, d) ==
    LET n == Len(d)
    IN IF Len(cur) < n THEN 0
       ELSE IF Len(cur) = n THEN FixDigit(cur, d, cur[n] \div d[n])
       ELSE FixDigit(cur, d, Min(Base - 1, (cur[n + 1] * Base + cur[n]) \div d[n]))

\* long division, limb by limb from the top: the limbs of a div d, most
\* significant first, followed by a mod d
RECURSIVE DivModFrom(_, _, _, _)
DivModFrom(a, d, i, rem) ==
    IF i = 0 THEN <<rem>>
    ELSE LET cur == BigNorm(<<a[i]>> \o rem)
             q == QuotDigit(cur, d)
         IN <<q>> \o DivModFrom(a, d, i - 1, BigSub(cur, BigMulSmall(d, q)))
\* <<a div d, a mod d>> for d # 0; both are first shifted so that the top limb
\* of d is full
DivModResult(r, n, k) == <<BigNorm(Rev(SubSeq(r, 1, n))), ShiftR(r[n + 1], k).q>>
DivModShifted(a, d, k) == DivModResult(DivModFrom(a, d, Len(a), <<>>), Len(a), k)
BigDivModBy(a, d, k) == DivModShifted(ShiftL(a, k), ShiftL(d, k), k)
BigDivMod(a, d) == Call("BigDivMod", <<a, d>>)
BigDivMod_def(a, d) == BigDivModBy(a, d, 15 - BitLenSmall(d[Len(d)]))

\* 10^k
RECURSIVE Pow10Big(_)
Pow10Big(k) == IF k < 4 THEN <<10^k>> ELSE BigMulSmall(Pow10Big(k - 4), 10000)

\* decimal digits, most significant first (<<>> for 0), taken from a big
\* natural and given to one four at a time
Digits4(n) == <<n \div 1000, (n \div 100) % 10, (n \div 10) % 10, n % 10>>
Value4(d) == LET p == Zeros(4 - Len(d)) \o d
             IN p[1] * 1000 + p[2] * 100 + p[3] * 10 + p[4]
ToDigits(a) == Call("ToDigits", <<a>>)
ToDigits_def(a) ==
    IF a = <<>> THEN <<>>
    ELSE LET r == BigDivSmall(a, 10000)
             low == Digits4(r[2])
         IN IF r[1] # <<>> THEN ToDigits(r[1]) \o low
            ELSE SubSeq(low, CHOOSE i \in 1..4 : low[i] # 0 /\ \A j \in 1..(i - 1) : low[j] = 0, 4)
FromDigits(d) == Call("FromDigits", <<d>>)
FromDigits_def(d) ==
    IF Len(d) <= 4 THEN FromNat(Value4(d))
    ELSE BigAdd(BigMulSmall(FromDigits(SubSeq(d, 1, Len(d) - 4)), 10000),
                FromNat(Value4(SubSeq(d, Len(d) - 3, Len(d)))))

(***************************************************************************)
(* Python floats: IEEE-754 doubles [m, e, neg], the value being m * 2^e    *)
(* (negated when neg) with 2^52 <= m < 2^53, or a zero (m = <<>>, e = 0);  *)
(* every operation rounded to nearest, ties to even.  Infinities, NaNs and *)
(* subnormals do not occur in the conversions modelled.                    *)
(***************************************************************************)
\* 0.0 and -0.0, the sign of a float, and a float with its sign changed
FZero(neg) == [m |-> <<>>, e |-> 0, neg |-> neg]
IsZero(v) == v.m = <<>>
FAbs(v) == [v EXCEPT !.neg = FALSE]
FSigned(v, neg) == [v EXCEPT !.neg = neg]
\* a 53 or 54 bit significand m with exponent e, as a double
Renorm(m, e) ==
    IF BitLen(m) = 54 THEN [m |-> ShiftR(m, 1).q, e |-> e + 1, neg |-> FALSE]
    ELSE [m |-> m, e |-> e, neg |-> FALSE]
\* n with its lowest t bits cut off leaves q: round q on the bits cut off
RoundCut(q, n, sticky, e, t) ==
    LET c == IF t = 0 THEN -1
             ELSE BigCmp(BigSub(n, ShiftL(q, t)), ShiftL(<<1>>, t - 1))
        up == c > 0 \/ (c = 0 /\ (sticky \/ q[1] % 2 = 1))
    IN Renorm(IF up THEN BigAdd(q, <<1>>) ELSE q, e + t)
RoundAt(n, sticky, e, t) == RoundCut(ShiftR(n, t).q, n, sticky, e, t)
\* the double nearest to n * 2^e, for a big natural n > 0 of at least 53 bits
\* followed by a nonzero fraction exactly when sticky
RoundBig(n, sticky, e) == Call("RoundBig", <<n, sticky, e>>)
RoundBig_def(n, sticky, e) == RoundAt(n, sticky, e, BitLen(n) - 53)
\* the double nearest to (n / d) * 2^e, for big naturals n, d > 0
RoundQuot(n, d, e) == Call("RoundQuot", <<n, d, e>>)
RoundQuot_def(n, d, e) ==
    LET s == 55 - (BitLen(n) - BitLen(d))
        num == IF s >= 0 THEN ShiftL(n, s) ELSE n
        den == IF s >= 0 THEN d ELSE ShiftL(d, -s)
        qr == BigDivMod(num, den)
    IN RoundBig(qr[1], qr[2] # <<>>, e - s)

\* a * b, and a / b for b other than zero (Python raises ZeroDivisionError
\* for a zero b: the callers test IsZero(b) before they divide)
FMul(a, b) == Call("FMul", <<a, b>>)
FMul_def(a, b) ==
    IF IsZero(a) \/ IsZero(b) THEN FZero(a.neg # b.neg)
    ELSE FSigned(RoundBig(BigMul(a.m, b.m), FALSE, a.e + b.e), a.neg # b.neg)
FDiv(a, b) == Call("FDiv", <<a, b>>)
FDiv_def(a, b) ==
    IF IsZero(a) THEN FZero(a.neg # b.neg)
    ELSE FSigned(RoundQuot(a.m, b.m, a.e - b.e), a.neg # b.neg)
\* float(n) of an int, and the float literal digits * 10^-scale (digits > 0)
IntToFloat(n) == Call("IntToFloat", <<n>>)
IntToFloat_def(n) ==
    IF n = 0 THEN FZero(FALSE)
    ELSE FSigned(RoundBig(ShiftL(FromNat(IF n < 0 THEN -n ELSE n), 53), FALSE, -53), n < 0)
Dec(digits, scale) == Call("Dec", <<digits, scale>>)
Dec_def(digits, scale) ==
    IF scale >= 0 THEN RoundQuot(digits, Pow10Big(scale), 0)
    ELSE RoundBig(ShiftL(BigMul(Pow10Big(-scale), digits), 53), FALSE, -53)
FloatLit(digits, scale) == Call("FloatLit", <<digits, scale>>)
FloatLit_def(digits, scale) == Dec(FromNat(digits), scale)

\* floor(v * 10^k) as decimal digits, and whether v * 10^k is that integer
Floor10(v, k) == Call("Floor10", <<v, k>>)
Floor10_def(v, k) ==
    LET n == BigMul(Pow10Big(k), v.m)
    IN IF v.e >= 0 THEN [q |-> ToDigits(ShiftL(n, v.e)), exact |-> TRUE]
       ELSE LET r == ShiftR(n, -v.e) IN [q |-> ToDigits(r.q), exact |-> ~r.sticky]

(***************************************************************************)
(* scipy.constants (CODATA 2018) and the two literals of the energy        *)
(* conversions                                                             *)
(***************************************************************************)
spc_k == FloatLit(1380649, 29)                          \* 1.380649e-23
spc_N_A == FloatLit(602214076, -15)                     \* 6.02214076e+23
spc_e == FloatLit(1602176634, 28)                       \* 1.602176634e-19
spc_erg == FloatLit(1, 7)                               \* 1e-07
RydbergErg == FMul(FloatLit(217987, 5), FloatLit(1, 11)) \* 2.17987 * pow(10, -11)
EvPerRy == FloatLit(136056, 4)                          \* 13.6056

(***************************************************************************)
(* Conversion Engine                                                       *)
(***************************************************************************)
Sconvert_JmolK_to_kBatom(entropy) == Call("Sconvert_JmolK_to_kBatom", <<entropy>>)
Sconvert_JmolK_to_kBatom_def(entropy) == FDiv(entropy, FMul(spc_k, spc_N_A))
Sconvert_kBatom_to_JmolK(entropy) == Call("Sconvert_kBatom_to_JmolK", <<entropy>>)
Sconvert_kBatom_to_JmolK_def(entropy) == FMul(entropy, FMul(spc_k, spc_N_A))

Sconvert_erggK_to_kBatom(entropy, atomic_mass) == Call("Sconvert_erggK_to_kBatom", <<entropy, atomic_mass>>)
Sconvert_erggK_to_kBatom_def(entropy, atomic_mass) ==
    FDiv(FMul(entropy, atomic_mass), FMul(FDiv(spc_k, spc_erg), spc_N_A))
Sconvert_kBatom_to_erggK(entropy, atomic_mass) == Call("Sconvert_kBatom_to_erggK", <<entropy, atomic_mass>>)
Sconvert_kBatom_to_erggK_def(entropy, atomic_mass) ==
    FDiv(FMul(FDiv(FMul(entropy, spc_k), spc_erg), spc_N_A), atomic_mass)

Sconvert_JgK_to_kBatom(entropy, atomic_mass) == Call("Sconvert_JgK_to_kBatom", <<entropy, atomic_mass>>)
Sconvert_JgK_to_kBatom_def(entropy, atomic_mass) ==
    FDiv(FMul(entropy, atomic_mass), FMul(spc_k, spc_N_A))
Sconvert_kBatom_to_JgK(entropy, atomic_mass) == Call("Sconvert_kBatom_to_JgK", <<entropy, atomic_mass>>)
Sconvert_kBatom_to_JgK_def(entropy, atomic_mass) ==
    FDiv(FMul(FMul(entropy, spc_k), spc_N_A), atomic_mass)

Sconvert_MbarccgK_to_kBatom(entropy, atomic_mass) == Call("Sconvert_MbarccgK_to_kBatom", <<entropy, atomic_mass>>)
Sconvert_MbarccgK_to_kBatom_def(entropy, atomic_mass) ==
    FDiv(FMul(FMul(entropy, atomic_mass), IntToFloat(100000)), FMul(spc_k, spc_N_A))
Sconvert_kBatom_to_MbarccgK(entropy, atomic_mass) == Call("Sconvert_kBatom_to_MbarccgK", <<entropy, atomic_mass>>)
Sconvert_kBatom_to_MbarccgK_def(entropy, atomic_mass) ==
    FDiv(FMul(FMul(entropy, spc_k), spc_N_A), FMul(atomic_mass, IntToFloat(100000)))

Sconvert_JmolK_to_JgK(entropy, atomic_mass) == Call("Sconvert_JmolK_to_JgK", <<entropy, atomic_mass>>)
Sconvert_JmolK_to_JgK_def(entropy, atomic_mass) == FDiv(entropy, atomic_mass)
Sconvert_JgK_to_JmolK(entropy, atomic_mass) == Call("Sconvert_JgK_to_JmolK", <<entropy, atomic_mass>>)
Sconvert_JgK_to_JmolK_def(entropy, atomic_mass) == FMul(entropy, atomic_mass)

\* a variant that takes erg/g/K to J/g/K by dividing
Sconvert_erggK_to_JgK_divides(entropy) == FDiv(entropy, spc_erg)
Sconvert_JgK_to_erggK(entropy) == Call("Sconvert_JgK_to_erggK", <<entropy>>)
Sconvert_JgK_to_erggK_def(entropy) == FDiv(entropy, spc_erg)
Sconvert_erggK_to_JgK(entropy) == Call("Sconvert_erggK_to_JgK", <<entropy>>)
Sconvert_erggK_to_JgK_def(entropy) == FMul(entropy, spc_erg)

Sconvert_MbarccgK_to_JgK(entropy) == Call("Sconvert_MbarccgK_to_JgK", <<entropy>>)
Sconvert_MbarccgK_to_JgK_def(entropy) == FMul(entropy, IntToFloat(100000))
Sconvert_JgK_to_MbarccgK(entropy) == Call("Sconvert_JgK_to_MbarccgK", <<entropy>>)
Sconvert_JgK_to_MbarccgK_def(entropy) == FDiv(entropy, IntToFloat(100000))

Econvert_kJmol_to_meVatom(energy) == Call("Econvert_kJmol_to_meVatom", <<energy>>)
Econvert_kJmol_to_meVatom_def(energy) ==
    FDiv(FMul(IntToFloat(1000), energy), FDiv(FMul(spc_e, spc_N_A), IntToFloat(1000)))
Econvert_meVatom_to_kJmol(energy) == Call("Econvert_meVatom_to_kJmol", <<energy>>)
Econvert_meVatom_to_kJmol_def(energy) ==
    FDiv(FMul(energy, FDiv(FMul(spc_e, spc_N_A), IntToFloat(1000))), IntToFloat(1000))

Econvert_eVatom_to_ergg(energy, atomic_mass) == Call("Econvert_eVatom_to_ergg", <<energy, atomic_mass>>)
Econvert_eVatom_to_ergg_def(energy, atomic_mass) ==
    FDiv(FMul(energy, FDiv(FMul(spc_e, spc_N_A), spc_erg)), atomic_mass)
Econvert_ergg_to_eVatom(energy, atomic_mass) == Call("Econvert_ergg_to_eVatom", <<energy, atomic_mass>>)
Econvert_ergg_to_eVatom_def(energy, atomic_mass) ==
    FDiv(FMul(energy, atomic_mass), FDiv(FMul(spc_e, spc_N_A), spc_erg))

Econvert_Jg_to_eVatom(energy, atomic_mass) == Call("Econvert_Jg_to_eVatom", <<energy, atomic_mass>>)
Econvert_Jg_to_eVatom_def(energy, atomic_mass) ==
    FDiv(FMul(energy, atomic_mass), FMul(spc_e, spc_N_A))
Econvert_eVatom_to_Jg(energy, atomic_mass) == Call("Econvert_eVatom_to_Jg", <<energy, atomic_mass>>)
Econvert_eVatom_to_Jg_def(energy, atomic_mass) ==
    FDiv(FMul(FMul(energy, spc_e), spc_N_A), atomic_mass)

Econvert_Ryatom_to_ergg(energy, atomic_mass) == Call("Econvert_Ryatom_to_ergg", <<energy, atomic_mass>>)
Econvert_Ryatom_to_ergg_def(energy, atomic_mass) ==
    FDiv(FMul(FMul(energy, RydbergErg), spc_N_A), atomic_mass)
Econvert_ergg_to_Ryatom(energy, atomic_mass) == Call("Econvert_ergg_to_Ryatom", <<energy, atomic_mass>>)
Econvert_ergg_to_Ryatom_def(energy, atomic_mass) ==
    FDiv(FMul(energy, atomic_mass), FMul(RydbergErg, spc_N_A))

\* a variant that divides by a Rydberg energy rounded differently
Econvert_eVatom_to_Ryatom_other(energy) == FDiv(energy, FloatLit(136057, 4))
Econvert_Ryatom_to_eVatom(energy) == Call("Econvert_Ryatom_to_eVatom", <<energy>>)
Econvert_Ryatom_to_eVatom_def(energy) == FMul(energy, EvPerRy)
Econvert_eVatom_to_Ryatom(energy) == Call("Econvert_eVatom_to_Ryatom", <<energy>>)
Econvert_eVatom_to_Ryatom_def(energy) == FDiv(energy, EvPerRy)

(***************************************************************************)
(* Texts.  A text token is one piece of a line after split(" ") or         *)
(* split("\t"): a word, the text of an int, a plain decimal ("12.011",     *)
(* "0.083257") or a scientific decimal ("1.444591E-07").  Digits are       *)
(* sequences, most significant first; nl tells whether the piece still     *)
(* carries the line's "\n".                                                *)
(*   word: w = the word            int: n = the value                      *)
(*   dec:  ip = digits before the point, fr = digits after it              *)
(*   sci:  ip = the digit before the point, fr = the six after it,         *)
(*         n = the exponent                                                *)
(* neg tells whether a dec or sci text starts with "-" (the sign of an int *)
(* text is that of n).                                                     *)
(***************************************************************************)
Tok(k, w, n, ip, fr) ==
    [k |-> k, w |-> w, n |-> n, ip |-> ip, fr |-> fr, nl |-> FALSE, neg |-> FALSE]
\* the text t, with "-" in front when neg
Signed(t, neg) == [t EXCEPT !.neg = neg]
Word(s) == Tok("word", s, 0, <<>>, <<>>)
IntText(n) == Tok("int", "", n, <<>>, <<>>)
DecText(ip, fr) == Tok("dec", "", 0, ip, fr)
SciText(ip, fr, exp) == Tok("sci", "", exp, ip, fr)
\* text + "\n" and text.rstrip("\n")
WithNL(t) == [t EXCEPT !.nl = TRUE]
rstrip(t) == [t EXCEPT !.nl = FALSE]

\* str(n) of an int
str(n) == IntText(n)

\* round-half-even: whether the kept digits go up, r being the first dropped
\* digit and restZero telling that nothing nonzero follows it
RoundsUp(lastKept, r, restZero) ==
    r > 5 \/ (r = 5 /\ ~restZero) \/ (r = 5 /\ restZero /\ lastKept % 2 = 1)

\* "{:.6f}".format(v)
Split6(all) == DecText(SubSeq(all, 1, Len(all) - 6), SubSeq(all, Len(all) - 5, Len(all)))
Pad7(kept) == Split6(Zeros(7 - Len(kept)) \o kept)
RoundLast(d, exact, L) ==
    IF L > 0 /\ RoundsUp(IF L > 1 THEN d[L - 1] ELSE 0, d[L], exact)
    THEN ToDigits(BigAdd(FromDigits(SubSeq(d, 1, L - 1)), <<1>>))
    ELSE SubSeq(d, 1, L - 1)
Fixed6(fl) == Pad7(RoundLast(fl.q, fl.exact, Len(fl.q)))
Format6f(v) == Call("Format6f", <<v>>)
Format6f_def(v) == Signed(Fixed6(Floor10(v, 7)), v.neg)

\* the digits of Floor10(v, 30) rounded to p significant ones: <<the p digits,
\* the decimal exponent of the first>>, for 1e-22 <= v
RoundDigits(fl, p) == Call("RoundDigits", <<fl, p>>)
RoundDigits_def(fl, p) ==
    LET d == fl.q
        L == Len(d)
        kept == SubSeq(d, 1, p)
        restZero == fl.exact /\ \A i \in (p + 2)..L : d[i] = 0
        up == RoundsUp(d[p], d[p + 1], restZero)
        inc == IF up THEN ToDigits(BigAdd(FromDigits(kept), <<1>>)) ELSE kept
    IN IF Len(inc) > p THEN <<SubSeq(inc, 1, p), L - 30>>
       ELSE <<inc, L - 1 - 30>>

\* "{:.6E}".format(v)
Format6E(v) == Call("Format6E", <<v>>)
Format6E_def(v) ==
    LET s == RoundDigits(Floor10(v, 30), 7)
    IN IF IsZero(v) THEN Signed(SciText(<<0>>, Zeros(6), 0), v.neg)
       ELSE Signed(SciText(SubSeq(s[1], 1, 1), SubSeq(s[1], 2, 7), s[2]), v.neg)

\* float(text) of the text of a number: an int, a plain or a scientific
\* decimal (a trailing "\n" is ignored); any other text of the model is a
\* ValueError
IsFloatText(t) == t.k \in {"int", "dec", "sci"}
float(t) == Call("float", <<t>>)
float_def(t) ==
    LET digits == FromDigits(t.ip \o t.fr)
    IN IF t.k = "int" THEN IntToFloat(t.n)
       ELSE IF digits = <<>> THEN FZero(t.neg)
       ELSE FSigned(Dec(digits, Len(t.fr) - t.n), t.neg)

\* "{}".format(v) of a float v, zero or 1e-4 <= |v| < 1e16: the shortest
\* digits that read back as |v|, in fixed notation with at least one fraction
\* digit, after the sign
ShortestDigits(v) == Call("ShortestDigits", <<v>>)
ShortestDigits_def(v) ==
    LET fl == Floor10(v, 30)
        back(p) == LET s == RoundDigits(fl, p) IN Dec(FromDigits(s[1]), p - 1 - s[2])
        ok == {p \in 1..17 : back(p) = v}
    IN RoundDigits(fl, CHOOSE p \in ok : \A q \in ok : p <= q)
repr(v) == Call("repr", <<v>>)
repr_def(v) ==
    LET s == ShortestDigits(FAbs(v))
        p == Len(s[1])
        dexp == s[2]
    IN IF IsZero(v) THEN Signed(DecText(<<0>>, <<0>>), v.neg)
       ELSE IF dexp >= p - 1
       THEN Signed(DecText(s[1] \o Zeros(dexp - (p - 1)), <<0>>), v.neg)
       ELSE IF dexp >= 0
       THEN Signed(DecText(SubSeq(s[1], 1, dexp + 1), SubSeq(s[1], dexp + 2, p)), v.neg)
       ELSE Signed(DecText(<<0>>, Zeros(-dexp - 1) \o s[1]), v.neg)

(***************************************************************************)
(* Python lists are sequences; a Python index i names element i + 1, and a *)
(* negative index counts from the end.                                     *)
(***************************************************************************)
\* whether list[i] is an IndexError
IndexError(list, i) == i >= Len(list) \/ i < -Len(list)
\* list[i]
At(list, i) == IF i >= 0 THEN list[i + 1] ELSE list[Len(list) + i + 1]
\* list[i] = v
Store(list, i, v) ==
    [list EXCEPT ![IF i >= 0 THEN i + 1 ELSE Len(list) + i + 1] = v]

\* int(text): defined for the text of an int, a ValueError for any other
IsIntText(t) == t.k = "int"
int(t) == t.n

(***************************************************************************)
(* The periodic-table source (mendeleev), an external collaborator: for    *)
(* the atomic numbers 1..118 it gives a symbol, a name and an atomic       *)
(* weight.  Symbols and names are kept as the texts "symbol of n" and      *)
(* "name of n"; they are pairwise different and none is a number or a      *)
(* unit.  The model fixes the weights: those of H, C, Zr and Og, and for   *)
(* every other element one of two stand-ins.                               *)
(***************************************************************************)
NumElements == 118
AtomicNumbers == 1..NumElements
md_symbol(n) == Tok("symbol", "", n, <<>>, <<>>)
md_name(n) == Tok("name", "", n, <<>>, <<>>)
md_weight_text(n) == Call("md_weight_text", <<n>>)
md_weight_text_def(n) ==
    CASE n = 1 -> DecText(<<1>>, <<0, 0, 8>>)
      [] n = 6 -> DecText(<<1, 2>>, <<0, 1, 1>>)
      [] n = 40 -> DecText(<<9, 1>>, <<2, 2, 4>>)
      [] n = 118 -> DecText(<<2, 9, 4>>, <<0>>)
      [] OTHER -> IF n % 2 = 0 THEN DecText(<<4>>, <<0, 0, 2, 6>>)
                  ELSE DecText(<<1, 0>>, <<8, 1>>)

\* the mass texts of the reference file lines of the model
OverrideMassTexts ==
    {DecText(<<1>>, <<0, 0, 7, 9, 8>>), DecText(<<1, 2>>, <<0, 1, 1, 0>>), IntText(12)}
\* every mass the model meets: the floats of the texts above, the texts
\* "{}".format() gives them, and float() of every such text, computed once
InputMassTexts == {md_weight_text(n) : n \in AtomicNumbers} \cup OverrideMassTexts
MassValues == {float(t) : t \in InputMassTexts}
ReprOf == [v \in MassValues |-> repr(v)]
MassTexts == InputMassTexts \cup {ReprOf[v] : v \in MassValues}
FloatOf == [t \in MassTexts |-> float(t)]
\* float(t) and "{}".format(v), looked up above where they are computed
FloatOfText(t) == IF t \in MassTexts THEN FloatOf[t] ELSE float(t)
ReprOfFloat(v) == IF v \in MassValues THEN ReprOf[v] ELSE repr(v)
md_atomic_weight(n) == Call("md_atomic_weight", <<n>>)
md_atomic_weight_def(n) == FloatOf[md_weight_text(n)]

(***************************************************************************)
(* Files.  A file is [exists, lines, writable]; a line of the reference     *)
(* file and of the atomic mass list is the sequence of its split(" ")      *)
(* pieces, a line of a table the sequence of its split("\t") pieces, the   *)
(* last piece carrying the "\n".  writable is FALSE for a name that        *)
(* open(name, "w") raises FileNotFoundError for.                           *)
(***************************************************************************)
NoFile == [exists |-> FALSE, lines |-> <<>>, writable |-> TRUE]
File(lines) == [exists |-> TRUE, lines |-> lines, writable |-> TRUE]
NoPath == [exists |-> FALSE, lines |-> <<>>, writable |-> FALSE]

\* how an operation ends: it returns (value), it prints msg and calls
\* exit(code), or it raises the exception exc that nothing catches
Returns(v) == [kind |-> "returns", value |-> v, msg |-> "", code |-> 0, exc |-> ""]
Exits(msg, code) == [kind |-> "exits", value |-> <<>>, msg |-> msg, code |-> code, exc |-> ""]
Raises(exc) == [kind |-> "raises", value |-> <<>>, msg |-> "", code |-> 1, exc |-> exc]

Modules == {"NIST_Conversion", "scripts"}

\* atomic_mass_list after the override lines from the i-th on, or the exception
\* the first bad line raises: int() of the first piece, float() of the third,
\* then the store at atomic_number - 1
ApplyOverrides(atomic_mass_list, lines, i) == Call("ApplyOverrides", <<atomic_mass_list, lines, i>>)
ApplyOverrides_def(atomic_mass_list, lines, i) ==
    IF i > Len(lines) THEN Returns(atomic_mass_list)
    ELSE LET atomic_contents == lines[i]
         IN IF ~IsIntText(At(atomic_contents, 0)) THEN Raises("ValueError")
            ELSE IF IndexError(atomic_contents, 2) THEN Raises("IndexError")
            ELSE IF ~IsFloatText(At(atomic_contents, 2)) THEN Raises("ValueError")
            ELSE LET atomic_number == int(At(atomic_contents, 0))
                     atomic_mass == FloatOfText(rstrip(At(atomic_contents, 2)))
                 IN IF IndexError(atomic_mass_list, atomic_number - 1)
                    THEN Raises("IndexError")
                    ELSE ApplyOverrides(Store(atomic_mass_list, atomic_number - 1, atomic_mass),
                                        lines, i + 1)

\* the line update_atomic_mass writes for element i + 1:
\* NIST_Conversion "6 C Carbon : 12.011\n", scripts "6: 12.011\n"
ListLineNIST(i, mass) == Call("ListLineNIST", <<i, mass>>)
ListLineNIST_def(i, mass) ==
    <<str(i + 1), md_symbol(i + 1), md_name(i + 1), Word(":"), WithNL(ReprOfFloat(mass))>>
ListLineScripts(i, mass) == Call("ListLineScripts", <<i, mass>>)
ListLineScripts_def(i, mass) ==
    <<Tok("int:", "", i + 1, <<>>, <<>>), WithNL(ReprOfFloat(mass))>>
ListLine(mod, i, mass) == Call("ListLine", <<mod, i, mass>>)
ListLine_def(mod, i, mass) ==
    IF mod = "NIST_Conversion" THEN ListLineNIST(i, mass) ELSE ListLineScripts(i, mass)

\* a variant that takes a missing reference file for an empty one and writes
\* the default masses
update_atomic_mass_defaults(mod, howerton_file, list_file) ==
    LET defaults == [i \in 1..NumElements |-> md_atomic_weight(i)]
        r == ApplyOverrides(defaults, howerton_file.lines, 1)
    IN IF r.kind = "raises" THEN [outcome |-> r, list |-> list_file, masses |-> <<>>]
       ELSE IF ~list_file.writable
       THEN [outcome |-> Exits("There is no such file called atomic_masses_list", -1),
             list |-> list_file, masses |-> <<>>]
       ELSE [outcome |-> Returns(<<>>),
             list |-> File([i \in 1..NumElements |-> ListLine(mod, i - 1, r.value[i])]),
             masses |-> r.value]
\* update_atomic_mass(): [outcome, list, masses] with list the file
\* atomic_masses_list.txt afterwards and masses the local atomic_mass_list the
\* call has written out (<<>> when it has written nothing)
update_atomic_mass(mod, howerton_file, list_file) == Call("update_atomic_mass", <<mod, howerton_file, list_file>>)
update_atomic_mass_def(mod, howerton_file, list_file) ==
    LET defaults == [i \in 1..NumElements |-> md_atomic_weight(i)]
        r == ApplyOverrides(defaults, howerton_file.lines, 1)
    IN IF ~howerton_file.exists
       THEN [outcome |-> Exits("There is no such file called howerton_atomic_masses", -1),
             list |-> list_file, masses |-> <<>>]
       ELSE IF r.kind = "raises" THEN [outcome |-> r, list |-> list_file, masses |-> <<>>]
       ELSE IF ~list_file.writable
       THEN [outcome |-> Exits("There is no such file called atomic_masses_list", -1),
             list |-> list_file, masses |-> <<>>]
       ELSE [outcome |-> Returns(<<>>),
             list |-> File([i \in 1..NumElements |-> ListLine(mod, i - 1, r.value[i])]),
             masses |-> r.value]

\* the piece of a list line create_atomic_mass_list reads the mass from
MassPieceNIST == 4
MassPieceScripts == 1
MassPiece(mod) == IF mod = "NIST_Conversion" THEN MassPieceNIST ELSE MassPieceScripts

\* float(line_elements[k]) of one list line: the exception it raises, or "" 
LineFault(line_elements, k) ==
    IF IndexError(line_elements, k) THEN "IndexError"
    ELSE IF ~IsFloatText(At(line_elements, k)) THEN "ValueError"
    ELSE ""

\* a variant that takes a missing list file for an empty one
create_atomic_mass_list_lenient(mod, list_file) ==
    LET k == MassPiece(mod)
        lines == list_file.lines
        bad == {i \in 1..Len(lines) : LineFault(lines[i], k) # ""}
    IN IF bad # {}
       THEN Raises(LineFault(lines[CHOOSE i \in bad : \A j \in bad : i <= j], k))
       ELSE Returns([i \in 1..Len(lines) |-> FloatOfText(rstrip(At(lines[i], k)))])
\* a variant that leaves the first line of the list file out
create_atomic_mass_list_skips_first(mod, list_file) ==
    LET k == MassPiece(mod)
        lines == list_file.lines
        bad == {i \in 1..Len(lines) : LineFault(lines[i], k) # ""}
    IN IF ~list_file.exists
       THEN Exits("There is no such file called atomic_masses_list", -1)
       ELSE IF bad # {}
       THEN Raises(LineFault(lines[CHOOSE i \in bad : \A j \in bad : i <= j], k))
       ELSE Returns([i \in 1..(Len(lines) - 1) |-> FloatOfText(rstrip(At(lines[i + 1], k)))])
\* create_atomic_mass_list(): the masses of all the lines of the list file, in
\* the order of the lines
create_atomic_mass_list(mod, list_file) == Call("create_atomic_mass_list", <<mod, list_file>>)
create_atomic_mass_list_def(mod, list_file) ==
    LET k == MassPiece(mod)
        lines == list_file.lines
        bad == {i \in 1..Len(lines) : LineFault(lines[i], k) # ""}
    IN IF ~list_file.exists
       THEN Exits("There is no such file called atomic_masses_list", -1)
       ELSE IF bad # {}
       THEN Raises(LineFault(lines[CHOOSE i \in bad : \A j \in bad : i <= j], k))
       ELSE Returns([i \in 1..Len(lines) |-> FloatOfText(rstrip(At(lines[i], k)))])

(***************************************************************************)
(* Table Builder.  The header lines are those the four builders write;     *)
(* a data row is the atomic number, the mass as "{:.6f}" and the four      *)
(* conversions of the value 1, each in the format of its place.            *)
(***************************************************************************)
TableKinds ==
    {"entropy_conversion_table", "entropy_conversion_table_reverse",
     "energy_conversion_table", "energy_conversion_table_reverse"}

Empty == Word("")
\* "Starting Unit\t\t\terg/g/K\t\tMbar-cc/g/K\tJ/g/K\t\tJ/mol/K\n" split at "\t"
HeaderLine(label, u1, u2, u3, u4, gap2) == Call("HeaderLine", <<label, u1, u2, u3, u4, gap2>>)
HeaderLine_def(label, u1, u2, u3, u4, gap2) ==
    <<Word(label), Empty, Empty, Word(u1), Empty, Word(u2)>>
        \o (IF gap2 THEN <<Empty>> ELSE <<>>)
        \o <<Word(u3), Empty, WithNL(Word(u4))>>
\* a variant whose forward entropy header names J/g/K in two columns
StartingLine_twice(kind) ==
    CASE kind = "entropy_conversion_table" ->
           HeaderLine("Starting Unit", "erg/g/K", "J/g/K", "J/g/K", "J/mol/K", FALSE)
      [] kind = "entropy_conversion_table_reverse" ->
           HeaderLine("Starting Unit", "kB/atom", "kB/atom", "kB/atom", "J/g/K", TRUE)
      [] kind = "energy_conversion_table" ->
           HeaderLine("Starting Unit", "erg/g", "J/g", "Ry/atom", "Ry/atom", TRUE)
      [] kind = "energy_conversion_table_reverse" ->
           HeaderLine("Starting Unit", "eV/atom", "eV/atom", "eV/atom", "erg/g", TRUE)
StartingLine(kind) == Call("StartingLine", <<kind>>)
StartingLine_def(kind) ==
    CASE kind = "entropy_conversion_table" ->
           HeaderLine("Starting Unit", "erg/g/K", "Mbar-cc/g/K", "J/g/K", "J/mol/K", FALSE)
      [] kind = "entropy_conversion_table_reverse" ->
           HeaderLine("Starting Unit", "kB/atom", "kB/atom", "kB/atom", "J/g/K", TRUE)
      [] kind = "energy_conversion_table" ->
           HeaderLine("Starting Unit", "erg/g", "J/g", "Ry/atom", "Ry/atom", TRUE)
      [] kind = "energy_conversion_table_reverse" ->
           HeaderLine("Starting Unit", "eV/atom", "eV/atom", "eV/atom", "erg/g", TRUE)
EndingLine(kind) == Call("EndingLine", <<kind>>)
EndingLine_def(kind) ==
    CASE kind = "entropy_conversion_table" ->
           HeaderLine("Ending Unit", "kB/atom", "kB/atom", "kB/atom", "J/g/K", TRUE)
      [] kind = "entropy_conversion_table_reverse" ->
           HeaderLine("Ending Unit", "erg/g/K", "Mbar-cc/g/K", "J/g/K", "J/mol/K", FALSE)
      [] kind = "energy_conversion_table" ->
           HeaderLine("Ending Unit", "eV/atom", "eV/atom", "eV/atom", "erg/g", TRUE)
      [] kind = "energy_conversion_table_reverse" ->
           HeaderLine("Ending Unit", "erg/g", "J/g", "Ry/atom", "Ry/atom", TRUE)
\* "Element\t\tAMass\n"
LabelLine == <<Word("Element"), Empty, WithNL(Word("AMass"))>>

\* the int 1 every builder converts
One == IntToFloat(1)

\* a variant whose reverse energy table has, in its last column, the conversion
\* from eV/atom instead of the one from erg/g
Conversions_mixed(kind, m) ==
    CASE kind = "entropy_conversion_table" ->
           <<Sconvert_erggK_to_kBatom(One, m), Sconvert_JgK_to_kBatom(One, m),
             Sconvert_MbarccgK_to_kBatom(One, m), Sconvert_JmolK_to_JgK(One, m)>>
      [] kind = "entropy_conversion_table_reverse" ->
           <<Sconvert_kBatom_to_erggK(One, m), Sconvert_kBatom_to_JgK(One, m),
             Sconvert_kBatom_to_MbarccgK(One, m), Sconvert_JgK_to_JmolK(One, m)>>
      [] kind = "energy_conversion_table" ->
           <<Econvert_ergg_to_eVatom(One, m), Econvert_Jg_to_eVatom(One, m),
             Econvert_Ryatom_to_eVatom(One), Econvert_Ryatom_to_ergg(One, m)>>
      [] kind = "energy_conversion_table_reverse" ->
           <<Econvert_eVatom_to_ergg(One, m), Econvert_eVatom_to_Jg(One, m),
             Econvert_eVatom_to_Ryatom(One), Econvert_eVatom_to_ergg(One, m)>>
\* conversion_1 .. conversion_4 of one row, as the builder computes them
Conversions(kind, m) == Call("Conversions", <<kind, m>>)
Conversions_def(kind, m) ==
    CASE kind = "entropy_conversion_table" ->
           <<Sconvert_erggK_to_kBatom(One, m), Sconvert_JgK_to_kBatom(One, m),
             Sconvert_MbarccgK_to_kBatom(One, m), Sconvert_JmolK_to_JgK(One, m)>>
      [] kind = "entropy_conversion_table_reverse" ->
           <<Sconvert_kBatom_to_erggK(One, m), Sconvert_kBatom_to_JgK(One, m),
             Sconvert_kBatom_to_MbarccgK(One, m), Sconvert_JgK_to_JmolK(One, m)>>
      [] kind = "energy_conversion_table" ->
           <<Econvert_ergg_to_eVatom(One, m), Econvert_Jg_to_eVatom(One, m),
             Econvert_Ryatom_to_eVatom(One), Econvert_Ryatom_to_ergg(One, m)>>
      [] kind = "energy_conversion_table_reverse" ->
           <<Econvert_eVatom_to_ergg(One, m), Econvert_eVatom_to_Jg(One, m),
             Econvert_eVatom_to_Ryatom(One), Econvert_ergg_to_Ryatom(One, m)>>

\* the format string of a row after the atomic number: TRUE is "{:.6E}",
\* FALSE is "{:.6f}", for the mass and the four conversions
RowFormat(kind) ==
    CASE kind = "entropy_conversion_table" -> <<FALSE, TRUE, FALSE, TRUE, FALSE>>
      [] kind = "entropy_conversion_table_reverse" -> <<FALSE, TRUE, FALSE, TRUE, FALSE>>
      [] kind = "energy_conversion_table" -> <<FALSE, TRUE, TRUE, FALSE, TRUE>>
      [] kind = "energy_conversion_table_reverse" -> <<FALSE, TRUE, FALSE, FALSE, TRUE>>
Format(sci, v) == Call("Format", <<sci, v>>)
Format_def(sci, v) == IF sci THEN Format6E(v) ELSE Format6f(v)

\* the five number cells of the row of a mass
RowCells(kind, m) == Call("RowCells", <<kind, m>>)
RowCells_def(kind, m) ==
    LET v == <<m>> \o Conversions(kind, m)
    IN [j \in 1..5 |-> Format(RowFormat(kind)[j], v[j])]
\* computed once for every mass of the model
RowCellsOf == [kind \in TableKinds |-> [m \in MassValues |-> RowCells(kind, m)]]
RowCellsFor(kind, m) == IF m \in MassValues THEN RowCellsOf[kind][m] ELSE RowCells(kind, m)

\* a variant of the row that numbers the elements from 0
RowLine_from0(kind, i, m) ==
    LET c == RowCellsFor(kind, m)
    IN <<str(i), Empty, c[1], c[2], c[3], c[4], WithNL(c[5])>>
\* "{}\t\t{:.6f}\t{:.6E}\t...\n".format(i + 1, atomic_masses[i], ...) split at "\t"
RowLine(kind, i, m) == Call("RowLine", <<kind, i, m>>)
RowLine_def(kind, i, m) ==
    LET c == RowCellsFor(kind, m)
    IN <<str(i + 1), Empty, c[1], c[2], c[3], c[4], WithNL(c[5])>>

\* create_conversion_table_<kind>(): [outcome, table] with table the kind's file
\* afterwards.  The file is opened for writing after the list is read; the row
\* of an element the list has no mass for is an IndexError and the row of a
\* mass that is zero a ZeroDivisionError (every builder divides by the mass in
\* one of its four conversions), the file keeping the lines written before it.
create_conversion_table(mod, kind, list_file, table) == Call("create_conversion_table", <<mod, kind, list_file, table>>)
create_conversion_table_def(mod, kind, list_file, table) ==
    LET read == create_atomic_mass_list(mod, list_file)
        atomic_masses == read.value
        listed == IF Len(atomic_masses) < NumElements THEN Len(atomic_masses) ELSE NumElements
        zeros == {i \in 1..listed : IsZero(atomic_masses[i])}
        rows == IF zeros = {} THEN listed
                ELSE (CHOOSE i \in zeros : \A j \in zeros : i <= j) - 1
        written == <<StartingLine(kind), EndingLine(kind), LabelLine>>
                       \o [i \in 1..rows |-> RowLine(kind, i - 1, atomic_masses[i])]
    IN IF read.kind # "returns" THEN [outcome |-> read, table |-> table]
       ELSE IF ~table.writable
       THEN [outcome |-> Exits("There is no such file called " \o kind, -1),
             table |-> table]
       ELSE IF zeros # {}
       THEN [outcome |-> Raises("ZeroDivisionError"), table |-> File(written)]
       ELSE IF rows < NumElements
       THEN [outcome |-> Raises("IndexError"), table |-> File(written)]
       ELSE [outcome |-> Returns(<<>>), table |-> File(written)]

(***************************************************************************)
(* Table lookup                                                            *)
(***************************************************************************)
\* an outcome of the lookup that shows a factor: value is
\* <<element name, starting unit, ending unit, cell>>
Shows(v) == [kind |-> "shows", value |-> v, msg |-> "", code |-> 0, exc |-> ""]
\* a function that ends without a return statement
None == Returns(<<>>)

\* list(filter(None, line.split("\t"))): the pieces that are not ""
IsEmptyText(t) == t.k = "word" /\ t.w = "" /\ ~t.nl
NonEmpty(t) == ~IsEmptyText(t)
\* line_data of a table line; NIST_Conversion strips the "\n" of the last piece
\* (line 293), scripts does not
LineData(mod, line) ==
    LET kept == SelectSeq(line, NonEmpty)
    IN IF mod = "NIST_Conversion" /\ kept # <<>>
       THEN [kept EXCEPT ![Len(kept)] = rstrip(kept[Len(kept)])]
       ELSE kept

\* the counts of enumerate(line_data) whose unit is the one asked
Counts(line_data, unit) == {count \in 0..(Len(line_data) - 1) : At(line_data, count) = unit}
\* starting_index / ending_index, as sets, once the lines 1..k are read
IndexAfter(mod, lines, k, label, unit) == Call("IndexAfter", <<mod, lines, k, label, unit>>)
IndexAfter_def(mod, lines, k, label, unit) ==
    UNION {Counts(LineData(mod, lines[j]), unit) :
              j \in {j \in 1..k : At(LineData(mod, lines[j]), 0) = Word(label)}}

common_member(a, b) == a \cap b

\* the name the list file gives the element (NIST_Conversion lines 314-318):
\* element_data[2] of the last line whose first piece is str(element);
\* bound is FALSE when no line matches
ElementName(list_file, element) == Call("ElementName", <<list_file, element>>)
ElementName_def(list_file, element) ==
    LET hits == {i \in 1..Len(list_file.lines) : At(list_file.lines[i], 0) = str(element)}
        last == CHOOSE i \in hits : \A j \in hits : j <= i
    IN IF hits = {} THEN [bound |-> FALSE, short |-> FALSE, name |-> Empty]
       ELSE IF \E i \in hits : IndexError(list_file.lines[i], 2)
       THEN [bound |-> FALSE, short |-> TRUE, name |-> Empty]
       ELSE [bound |-> TRUE, short |-> FALSE, name |-> At(list_file.lines[last], 2)]

\* access_factor_from_table(table, element, starting_unit, ending_unit): the set
\* of its possible outcomes, one for each value "for i in unit_index: index = i"
\* may leave in index (the iteration order of a set is not specified).  The
\* lines are read up to the first whose first piece is str(element).
access_factor_from_table(mod, table_file, list_file, element, starting_unit, ending_unit) == Call("access_factor_from_table", <<mod, table_file, list_file, element, starting_unit, ending_unit>>)
access_factor_from_table_def(mod, table_file, list_file, element, starting_unit, ending_unit) ==
    LET lines == table_file.lines
        found == {k \in 1..Len(lines) : At(LineData(mod, lines[k]), 0) = str(element)}
        row == CHOOSE k \in found : \A j \in found : k <= j
        line_data == LineData(mod, lines[row])
        unit_index == common_member(IndexAfter(mod, lines, row, "Starting Unit", starting_unit),
                                    IndexAfter(mod, lines, row, "Ending Unit", ending_unit))
        named == IF mod = "NIST_Conversion" THEN ElementName(list_file, element)
                 ELSE [bound |-> TRUE, short |-> FALSE, name |-> md_name(element)]
    IN IF ~table_file.exists
       THEN {Exits("There is no such file called the table", -1)}
       ELSE IF found = {} THEN {None}
       ELSE IF mod = "NIST_Conversion" /\ ~list_file.exists
       THEN {Exits("There is no such file called the table", -1)}
       ELSE IF named.short THEN {Raises("IndexError")}
       ELSE IF ~named.bound \/ unit_index = {} THEN {Raises("UnboundLocalError")}
       ELSE {IF IndexError(line_data, index + 1) THEN Raises("IndexError")
             ELSE Shows(<<named.name, starting_unit, ending_unit, At(line_data, index + 1)>>) :
                index \in unit_index}

\* the manual list of units of get_factor_from_table
units ==
    {Word("erg/g/K"), Word("Mbar-cc/g/K"), Word("J/g/K"), Word("J/mol/K"), Word("kB/atom"),
     Word("erg/g"), Word("J/g"), Word("Ry/atom"), Word("eV/atom")}

\* choice_parameters == "Ry/atom": a list compared with a str, which Python
\* finds unequal whatever the list holds
ListEqualsStr(list, text) == FALSE

\* the chain of conditions after the prompt: the table the request is looked
\* up in, or "" for the final else
SelectTable(choice_parameters) == Call("SelectTable", <<choice_parameters>>)
SelectTable_def(choice_parameters) ==
    LET starting == At(choice_parameters, 1)
        ending == At(choice_parameters, 2)
    IN IF starting \in {Word("erg/g/K"), Word("Mbar-cc/g/K"), Word("J/mol/K")}
       THEN "entropy_conversion_table"
       ELSE IF starting = Word("J/g/K")
       THEN (IF ending = Word("kB/atom") THEN "entropy_conversion_table"
             ELSE "entropy_conversion_table_reverse")
       ELSE IF starting = Word("kB/atom") THEN "entropy_conversion_table_reverse"
       ELSE IF starting = Word("J/g") \/ ListEqualsStr(choice_parameters, "Ry/atom")
       THEN "energy_conversion_table"
       ELSE IF starting = Word("erg/g")
       THEN (IF ending = Word("eV/atom") THEN "energy_conversion_table"
             ELSE "energy_conversion_table_reverse")
       ELSE IF starting = Word("eV/atom") THEN "energy_conversion_table_reverse"
       ELSE ""

\* a local variable that may not be bound yet
Unbound == [bound |-> FALSE, value |-> 0]
Bound(v) == [bound |-> TRUE, value |-> v]

\* what one line of the list file does in the search for a symbol or a name
\* (NIST_Conversion lines 363-367): it raises, it matches, or it is passed over
ScanEvent(line_elements, wanted) ==
    IF IndexError(line_elements, 1) THEN "IndexError"
    ELSE IF At(line_elements, 1) = wanted
    THEN (IF IsIntText(At(line_elements, 0)) THEN "match" ELSE "ValueError")
    ELSE IF IndexError(line_elements, 2) THEN "IndexError"
    ELSE IF At(line_elements, 2) = wanted
    THEN (IF IsIntText(At(line_elements, 0)) THEN "match" ELSE "ValueError")
    ELSE "pass"

\* the element after lines 359-367, element being its value before: kind is
\* "ok" or the exception raised
ResolveElement(element, choice_parameters, list_file) == Call("ResolveElement", <<element, choice_parameters, list_file>>)
ResolveElement_def(element, choice_parameters, list_file) ==
    LET wanted == At(choice_parameters, 0)
        lines == list_file.lines
        events == {i \in 1..Len(lines) : ScanEvent(lines[i], wanted) # "pass"}
        first == CHOOSE i \in events : \A j \in events : i <= j
    IN IF IsIntText(wanted) THEN [kind |-> "ok", element |-> Bound(int(wanted))]
       ELSE IF ~list_file.exists THEN [kind |-> "FileNotFoundError", element |-> element]
       ELSE IF events = {} THEN [kind |-> "ok", element |-> element]
       ELSE IF ScanEvent(lines[first], wanted) = "match"
       THEN [kind |-> "ok", element |-> Bound(int(At(lines[first], 0)))]
       ELSE [kind |-> ScanEvent(lines[first], wanted), element |-> element]

\* one pass of the while loop of get_factor_from_table on an input line:
\* kind "continue" (the prompt is repeated, after msg if there is one), "break"
\* (the line is accepted) or "raises"
LoopPass(element, choice_parameters, list_file) == Call("LoopPass", <<element, choice_parameters, list_file>>)
LoopPass_def(element, choice_parameters, list_file) ==
    LET r == ResolveElement(element, choice_parameters, list_file)
        unsupported == "is not a supported unit / Please check your spelling."
    IN IF r.kind = "FileNotFoundError"
       THEN [kind |-> "raises", exc |-> r.kind, msg |-> "", element |-> r.element]
       ELSE IF r.kind # "ok"
       THEN [kind |-> "continue", exc |-> r.kind, msg |-> "", element |-> r.element]
       ELSE IF Len(choice_parameters) # 3
       THEN [kind |-> "continue", exc |-> "", msg |-> "", element |-> r.element]
       ELSE IF At(choice_parameters, 1) \notin units \/ At(choice_parameters, 2) \notin units
       THEN [kind |-> "continue", exc |-> "", msg |-> unsupported, element |-> r.element]
       ELSE [kind |-> "break", exc |-> "", msg |-> "", element |-> r.element]

(***************************************************************************)
(* Every operator above that is written as Call("name", <<arguments>>) is  *)
(* the definition name_def applied to those arguments.  As in Python, the  *)
(* arguments are evaluated before the definition is entered.               *)
(***************************************************************************)
Call(op, args) ==
    IF Len(args) < 0 THEN args ELSE
    CASE op = "BigMul" -> BigMul_def(args[1], args[2])
      [] op = "ShiftR" -> ShiftR_def(args[1], args[2])
      [] op = "QuotDigit" -> QuotDigit_def(args[1], args[2])
      [] op = "BigDivMod" -> BigDivMod_def(args[1], args[2])
      [] op = "ToDigits" -> ToDigits_def(args[1])
      [] op = "FromDigits" -> FromDigits_def(args[1])
      [] op = "RoundBig" -> RoundBig_def(args[1], args[2], args[3])
      [] op = "RoundQuot" -> RoundQuot_def(args[1], args[2], args[3])
      [] op = "FMul" -> FMul_def(args[1], args[2])
      [] op = "FDiv" -> FDiv_def(args[1], args[2])
      [] op = "IntToFloat" -> IntToFloat_def(args[1])
      [] op = "Dec" -> Dec_def(args[1], args[2])
      [] op = "FloatLit" -> FloatLit_def(args[1], args[2])
      [] op = "Floor10" -> Floor10_def(args[1], args[2])
      [] op = "Sconvert_JmolK_to_kBatom" -> Sconvert_JmolK_to_kBatom_def(args[1])
      [] op = "Sconvert_kBatom_to_JmolK" -> Sconvert_kBatom_to_JmolK_def(args[1])
      [] op = "Sconvert_erggK_to_kBatom" -> Sconvert_erggK_to_kBatom_def(args[1], args[2])
      [] op = "Sconvert_kBatom_to_erggK" -> Sconvert_kBatom_to_erggK_def(args[1], args[2])
      [] op = "Sconvert_JgK_to_kBatom" -> Sconvert_JgK_to_kBatom_def(args[1], args[2])
      [] op = "Sconvert_kBatom_to_JgK" -> Sconvert_kBatom_to_JgK_def(args[1], args[2])
      [] op = "Sconvert_MbarccgK_to_kBatom" -> Sconvert_MbarccgK_to_kBatom_def(args[1], args[2])
      [] op = "Sconvert_kBatom_to_MbarccgK" -> Sconvert_kBatom_to_MbarccgK_def(args[1], args[2])
      [] op = "Sconvert_JmolK_to_JgK" -> Sconvert_JmolK_to_JgK_def(args[1], args[2])
      [] op = "Sconvert_JgK_to_JmolK" -> Sconvert_JgK_to_JmolK_def(args[1], args[2])
      [] op = "Sconvert_JgK_to_erggK" -> Sconvert_JgK_to_erggK_def(args[1])
      [] op = "Sconvert_erggK_to_JgK" -> Sconvert_erggK_to_JgK_def(args[1])
      [] op = "Sconvert_MbarccgK_to_JgK" -> Sconvert_MbarccgK_to_JgK_def(args[1])
      [] op = "Sconvert_JgK_to_MbarccgK" -> Sconvert_JgK_to_MbarccgK_def(args[1])
      [] op = "Econvert_kJmol_to_meVatom" -> Econvert_kJmol_to_meVatom_def(args[1])
      [] op = "Econvert_meVatom_to_kJmol" -> Econvert_meVatom_to_kJmol_def(args[1])
      [] op = "Econvert_eVatom_to_ergg" -> Econvert_eVatom_to_ergg_def(args[1], args[2])
      [] op = "Econvert_ergg_to_eVatom" -> Econvert_ergg_to_eVatom_def(args[1], args[2])
      [] op = "Econvert_Jg_to_eVatom" -> Econvert_Jg_to_eVatom_def(args[1], args[2])
      [] op = "Econvert_eVatom_to_Jg" -> Econvert_eVatom_to_Jg_def(args[1], args[2])
      [] op = "Econvert_Ryatom_to_ergg" -> Econvert_Ryatom_to_ergg_def(args[1], args[2])
      [] op = "Econvert_ergg_to_Ryatom" -> Econvert_ergg_to_Ryatom_def(args[1], args[2])
      [] op = "Econvert_Ryatom_to_eVatom" -> Econvert_Ryatom_to_eVatom_def(args[1])
      [] op = "Econvert_eVatom_to_Ryatom" -> Econvert_eVatom_to_Ryatom_def(args[1])
      [] op = "Format6f" -> Format6f_def(args[1])
      [] op = "RoundDigits" -> RoundDigits_def(args[1], args[2])
      [] op = "Format6E" -> Format6E_def(args[1])
      [] op = "float" -> float_def(args[1])
      [] op = "ShortestDigits" -> ShortestDigits_def(args[1])
      [] op = "repr" -> repr_def(args[1])
      [] op = "md_weight_text" -> md_weight_text_def(args[1])
      [] op = "md_atomic_weight" -> md_atomic_weight_def(args[1])
      [] op = "ApplyOverrides" -> ApplyOverrides_def(args[1], args[2], args[3])
      [] op = "ListLineNIST" -> ListLineNIST_def(args[1], args[2])
      [] op = "ListLineScripts" -> ListLineScripts_def(args[1], args[2])
      [] op = "ListLine" -> ListLine_def(args[1], args[2], args[3])
      [] op = "update_atomic_mass" -> update_atomic_mass_def(args[1], args[2], args[3])
      [] op = "create_atomic_mass_list" -> create_atomic_mass_list_def(args[1], args[2])
      [] op = "HeaderLine" -> HeaderLine_def(args[1], args[2], args[3], args[4], args[5], args[6])
      [] op = "StartingLine" -> StartingLine_def(args[1])
      [] op = "EndingLine" -> EndingLine_def(args[1])
      [] op = "Conversions" -> Conversions_def(args[1], args[2])
      [] op = "Format" -> Format_def(args[1], args[2])
      [] op = "RowCells" -> RowCells_def(args[1], args[2])
      [] op = "RowLine" -> RowLine_def(args[1], args[2], args[3])
      [] op = "create_conversion_table" -> create_conversion_table_def(args[1], args[2], args[3], args[4])
      [] op = "IndexAfter" -> IndexAfter_def(args[1], args[2], args[3], args[4], args[5])
      [] op = "ElementName" -> ElementName_def(args[1], args[2])
      [] op = "access_factor_from_table" -> access_factor_from_table_def(args[1], args[2], args[3], args[4], args[5], args[6])
      [] op = "SelectTable" -> SelectTable_def(args[1])
      [] op = "ResolveElement" -> ResolveElement_def(args[1], args[2], args[3])
      [] op = "LoopPass" -> LoopPass_def(args[1], args[2], args[3])


(***************************************************************************)
(* The programs.  NIST_Conversion.main builds the four tables and prompts  *)
(* for lookups; main.py in its AM mode rebuilds the atomic mass list and   *)
(* the four tables with the functions of scripts.                          *)
(***************************************************************************)
VARIABLES
    fs_howerton,    \* the file howerton_atomic_masses.txt
    fs_list,        \* the file atomic_masses_list.txt
    fs_tables,      \* the four table files, by name
    pc,             \* where the running program is: "idle" when none runs
    prog,           \* the running program: "NIST_Conversion" (its main), "main"
                    \* (main.py, choice AM), "scripts" (get_factor_from_table)
    stage,          \* the number of the next table to build
    local_element,  \* the local variable element of get_factor_from_table
    console,        \* the last message printed
    lookup,         \* the last call of access_factor_from_table and its outcome
    updated,        \* the last call of update_atomic_mass: its input and outcome
    built,          \* the last call of a table builder and its outcome
    loaded,         \* the last call of create_atomic_mass_list and its outcome
    quantity        \* a value under conversion by the engine
vars == <<fs_howerton, fs_list, fs_tables, pc, prog, stage, local_element, console,
          lookup, updated, updated, built, loaded, quantity>>

\* the module whose functions a program calls
ModuleOf(program) == IF program = "NIST_Conversion" THEN "NIST_Conversion" ELSE "scripts"

\* a variant that builds the energy tables first
BuildOrder_energy_first ==
    <<"energy_conversion_table", "energy_conversion_table_reverse",
      "entropy_conversion_table", "entropy_conversion_table_reverse">>
\* a variant that builds the forward entropy table twice and never its reverse
BuildOrder_skips_one ==
    <<"entropy_conversion_table", "entropy_conversion_table",
      "energy_conversion_table", "energy_conversion_table_reverse">>
\* the order in which both programs build the tables
BuildOrder ==
    <<"entropy_conversion_table", "entropy_conversion_table_reverse",
      "energy_conversion_table", "energy_conversion_table_reverse">>

NoLookup == [module |-> "", table |-> "", line |-> <<>>, request |-> <<>>, outcome |-> None]
\* lines are the lines of the reference file the call met; wrote is the module
\* whose call has last written the list file and persisted the masses it wrote
NoUpdate == [module |-> "", lines |-> <<>>, outcome |-> None, wrote |-> "",
             persisted |-> <<>>]
Updated(mod, howerton_file, r, before) ==
    [module |-> mod, lines |-> howerton_file.lines, outcome |-> r.outcome,
     wrote |-> IF r.outcome.kind = "returns" THEN mod ELSE before.wrote,
     persisted |-> IF r.outcome.kind = "returns" THEN r.masses ELSE before.persisted]
NoBuild == [module |-> "", kind |-> "", outcome |-> None]
NoLoad == [module |-> "", outcome |-> None]
NoQuantity == [unit |-> "", value |-> One, mass |-> One, first |-> One, path |-> <<>>]

\* a reference file line "<atomic number> <symbol> <mass>\n"
OverrideLine(n, mass_text) == <<str(n), md_symbol(n), WithNL(mass_text)>>
\* the reference file the repository ships is stood for by two lines
ShippedReference ==
    File(<<OverrideLine(1, DecText(<<1>>, <<0, 0, 7, 9, 8>>)),
           OverrideLine(6, DecText(<<1, 2>>, <<0, 1, 1, 0>>))>>)
\* the list file the repository ships: what update_atomic_mass writes from it
ShippedList == update_atomic_mass("NIST_Conversion", ShippedReference, NoFile).list

\* a list file cut short after its first lines
ShortLen == 5
ShortList == File(SubSeq(ShippedList.lines, 1, ShortLen))

Init ==
    /\ fs_howerton \in {ShippedReference, NoFile}
    /\ fs_list \in {ShippedList, ShortList, NoFile}
    /\ fs_tables \in {[kind \in TableKinds |-> NoFile],
                      [kind \in TableKinds |->
                          IF kind = "energy_conversion_table" THEN NoPath ELSE NoFile]}
    /\ pc = "idle"
    /\ prog = ""
    /\ stage = 1
    /\ local_element = Unbound
    /\ console = ""
    /\ lookup = NoLookup
    /\ updated = NoUpdate
    /\ built = NoBuild
    /\ loaded = NoLoad
    /\ quantity = NoQuantity

\* how a program goes on after an operation's outcome
After(outcome, next) ==
    CASE outcome.kind = "exits" -> "exited"
      [] outcome.kind = "raises" -> "crashed"
      [] OTHER -> next
Said(outcome, before) ==
    CASE outcome.kind = "exits" -> outcome.msg
      [] outcome.kind = "raises" -> outcome.exc
      [] OTHER -> before

\* NIST_Conversion.main starts: the banner is printed
StartNIST ==
    /\ pc = "idle"
    /\ pc' = "build"
    /\ prog' = "NIST_Conversion"
    /\ stage' = 1
    /\ console' = "banner"
    /\ lookup' = NoLookup
    /\ local_element' = Unbound
    /\ UNCHANGED <<fs_howerton, fs_list, fs_tables, updated, built, loaded, quantity>>

\* main.py, choice "AM": scripts.update_atomic_mass(), then the builds
StartAM ==
    /\ pc = "idle"
    /\ \E r \in {update_atomic_mass("scripts", fs_howerton, fs_list)} :
          /\ fs_list' = r.list
          /\ updated' = Updated("scripts", fs_howerton, r, updated)
          /\ pc' = After(r.outcome, "build")
          /\ console' = Said(r.outcome, "")
    /\ prog' = "main"
    /\ stage' = 1
    /\ lookup' = NoLookup
    /\ local_element' = Unbound
    /\ UNCHANGED <<fs_howerton, fs_tables, built, loaded, quantity>>

\* the next create_conversion_table_... call of the running program
Build ==
    /\ pc = "build"
    /\ \E kind \in {BuildOrder[stage]} :
       \E r \in {create_conversion_table(ModuleOf(prog), kind, fs_list, fs_tables[kind])} :
          /\ fs_tables' = [fs_tables EXCEPT ![kind] = r.table]
          /\ built' = [module |-> ModuleOf(prog), kind |-> kind, outcome |-> r.outcome]
          /\ pc' = After(r.outcome,
                         IF stage < Len(BuildOrder) THEN "build"
                         ELSE IF prog = "NIST_Conversion" THEN "prompt" ELSE "ended")
          /\ stage' = IF r.outcome.kind = "returns" /\ stage < Len(BuildOrder)
                      THEN stage + 1 ELSE stage
          /\ console' = Said(r.outcome, console)
    /\ UNCHANGED <<fs_howerton, fs_list, prog, local_element, lookup, updated, loaded,
                   quantity>>

\* the lines typed at the prompt, as split(" ") gives them
ElementTexts ==
    {IntText(6), IntText(118), IntText(0), IntText(119), md_symbol(40), md_name(6),
     Word("Xx")}
UnitTexts == units \cup {Word("furlong")}
ProbePairs ==
    {<<Word("J/mol/K"), Word("J/g/K")>>, <<Word("eV/atom"), Word("Ry/atom")>>,
     <<Word("Ry/atom"), Word("eV/atom")>>, <<Word("eV/atom"), Word("Mbar-cc/g/K")>>}
PromptLines ==
    {<<IntText(6), s, e>> : s \in UnitTexts, e \in UnitTexts}
        \cup {<<el, pair[1], pair[2]>> : el \in ElementTexts, pair \in ProbePairs}
        \cup {<<IntText(6)>>, <<Word("")>>, <<md_name(6), Word("J/g")>>,
              <<IntText(6), Word("J/g"), Word("eV/atom"), Word("")>>}

InvalidInput == "Invalid input for element, starting unit, or ending unit!"

\* what the program does with the outcome of access_factor_from_table: at a
\* factor shown NIST_Conversion asks whether to go on; a call that returns
\* (None) lets get_factor_from_table and then the program come to their end
AfterAccess(outcome) ==
    CASE outcome.kind = "shows" -> "confirm"
      [] outcome.kind = "returns" -> "ended"
      [] outcome.kind = "exits" -> "exited"
      [] outcome.kind = "raises" -> "crashed"
SaidByAccess(outcome) ==
    CASE outcome.kind = "shows" -> "factor"
      [] outcome.kind = "returns" -> ""
      [] outcome.kind = "exits" -> outcome.msg
      [] outcome.kind = "raises" -> outcome.exc

\* NIST_Conversion.get_factor_from_table on one input line: a pass of the
\* while loop, then for an accepted line the chain of conditions and the lookup
NistPrompt(choice_parameters) ==
    /\ pc = "prompt"
    /\ \E p \in {LoopPass(local_element, choice_parameters, fs_list)} :
       \E table \in {IF p.kind = "break" THEN SelectTable(choice_parameters) ELSE ""} :
          CASE p.kind = "raises" ->
                 /\ pc' = "crashed"
                 /\ console' = p.exc
                 /\ local_element' = p.element
                 /\ lookup' = NoLookup
            [] p.kind = "continue" ->
                 /\ pc' = "prompt"
                 /\ console' = p.msg
                 /\ local_element' = p.element
                 /\ lookup' = NoLookup
            [] p.kind = "break" /\ table = "" ->
                 /\ pc' = "prompt"
                 /\ console' = InvalidInput
                 /\ local_element' = Unbound
                 /\ lookup' = [module |-> prog, table |-> "", outcome |-> None,
                               line |-> choice_parameters,
                               request |-> <<0, At(choice_parameters, 1),
                                             At(choice_parameters, 2)>>]
            [] p.kind = "break" /\ table # "" /\ ~p.element.bound ->
                 /\ pc' = "crashed"
                 /\ console' = "UnboundLocalError"
                 /\ local_element' = p.element
                 /\ lookup' = NoLookup
            [] p.kind = "break" /\ table # "" /\ p.element.bound ->
                 \E outcome \in access_factor_from_table(prog, fs_tables[table], fs_list,
                                    p.element.value, At(choice_parameters, 1),
                                    At(choice_parameters, 2)) :
                     /\ pc' = AfterAccess(outcome)
                     /\ console' = SaidByAccess(outcome)
                     /\ local_element' = p.element
                     /\ lookup' = [module |-> prog, table |-> table, outcome |-> outcome,
                                   line |-> choice_parameters,
                                   request |-> <<p.element.value, At(choice_parameters, 1),
                                                 At(choice_parameters, 2)>>]
    /\ UNCHANGED <<fs_howerton, fs_list, fs_tables, prog, stage, updated, built, loaded, quantity>>

\* choice.upper()
upper(choice) == CASE choice = "y" -> "Y" [] choice = "n" -> "N" [] OTHER -> choice

\* the answer to "Would you like to get another conversion factor? (Y/N)"
NistConfirm(choice) ==
    /\ pc = "confirm"
    /\ IF upper(choice) = "Y"
       THEN /\ pc' = "prompt"
            /\ console' = ""
            /\ local_element' = Unbound
            /\ lookup' = NoLookup
       ELSE /\ pc' = "exited"
            /\ console' = "Exiting..."
            /\ UNCHANGED <<local_element, lookup>>
    /\ UNCHANGED <<fs_howerton, fs_list, fs_tables, prog, stage, updated, built, loaded, quantity>>

\* md.element(int(text)) or md.element(text): the atomic number of the element,
\* or 0 where mendeleev raises
md_element(t) ==
    IF IsIntText(t) THEN (IF int(t) \in AtomicNumbers THEN int(t) ELSE 0)
    ELSE IF t.k \in {"symbol", "name"} THEN t.n
    ELSE 0

\* scripts.get_factor_from_table(): one input line, no loop
ScriptsFail(exc) ==
    /\ pc' = "crashed"
    /\ console' = exc
    /\ lookup' = NoLookup
ScriptsGetFactor(choice_parameters) ==
    /\ pc = "idle"
    /\ \E element \in {md_element(At(choice_parameters, 0))} :
       \E table \in {IF element = 0 \/ IndexError(choice_parameters, 1) THEN ""
                     ELSE SelectTable(choice_parameters)} :
          IF element = 0 THEN ScriptsFail("mendeleev")
          ELSE IF IndexError(choice_parameters, 1) THEN ScriptsFail("IndexError")
          ELSE IF table = ""
          THEN /\ pc' = "ended"
               /\ console' = InvalidInput
               /\ lookup' = [module |-> "scripts", table |-> "", outcome |-> None,
                             line |-> choice_parameters,
                             request |-> <<0, At(choice_parameters, 1), Empty>>]
          ELSE IF IndexError(choice_parameters, 2) THEN ScriptsFail("IndexError")
          ELSE \E outcome \in access_factor_from_table("scripts", fs_tables[table], fs_list,
                                  element, At(choice_parameters, 1),
                                  At(choice_parameters, 2)) :
                   /\ pc' = IF outcome.kind \in {"shows", "returns"} THEN "ended"
                            ELSE AfterAccess(outcome)
                   /\ console' = SaidByAccess(outcome)
                   /\ lookup' = [module |-> "scripts", table |-> table, outcome |-> outcome,
                                 line |-> choice_parameters,
                                 request |-> <<element, At(choice_parameters, 1),
                                               At(choice_parameters, 2)>>]
    /\ prog' = "scripts"
    /\ UNCHANGED <<fs_howerton, fs_list, fs_tables, stage, local_element, updated, built,
                   loaded, quantity>>

\* the process is over
Finish ==
    /\ pc \in {"ended", "exited", "crashed"}
    /\ pc' = "idle"
    /\ prog' = ""
    /\ console' = ""
    /\ lookup' = NoLookup
    /\ local_element' = Unbound
    /\ UNCHANGED <<fs_howerton, fs_list, fs_tables, stage, updated, built, loaded, quantity>>

Next ==
    \/ StartNIST
    \/ StartAM
    \/ Build
    \/ \E line \in PromptLines : NistPrompt(line)
    \/ \E choice \in {"Y", "y", "N", ""} : NistConfirm(choice)
    \/ \E line \in PromptLines : ScriptsGetFactor(line)
    \/ Finish

Spec == Init /\ [][Next]_vars

(***************************************************************************)
(* Properties of the tables, the lookup and the prompt, checked under Spec *)
(***************************************************************************)
\* the engine function named <S|E>convert_<starting>_to_<ending>
NamedConversion(starting, ending, x, m) ==
    CASE starting = "erg/g/K" /\ ending = "kB/atom" -> Sconvert_erggK_to_kBatom(x, m)
      [] starting = "Mbar-cc/g/K" /\ ending = "kB/atom" -> Sconvert_MbarccgK_to_kBatom(x, m)
      [] starting = "J/g/K" /\ ending = "kB/atom" -> Sconvert_JgK_to_kBatom(x, m)
      [] starting = "J/mol/K" /\ ending = "J/g/K" -> Sconvert_JmolK_to_JgK(x, m)
      [] starting = "kB/atom" /\ ending = "erg/g/K" -> Sconvert_kBatom_to_erggK(x, m)
      [] starting = "kB/atom" /\ ending = "Mbar-cc/g/K" -> Sconvert_kBatom_to_MbarccgK(x, m)
      [] starting = "kB/atom" /\ ending = "J/g/K" -> Sconvert_kBatom_to_JgK(x, m)
      [] starting = "J/g/K" /\ ending = "J/mol/K" -> Sconvert_JgK_to_JmolK(x, m)
      [] starting = "erg/g" /\ ending = "eV/atom" -> Econvert_ergg_to_eVatom(x, m)
      [] starting = "J/g" /\ ending = "eV/atom" -> Econvert_Jg_to_eVatom(x, m)
      [] starting = "Ry/atom" /\ ending = "eV/atom" -> Econvert_Ryatom_to_eVatom(x)
      [] starting = "Ry/atom" /\ ending = "erg/g" -> Econvert_Ryatom_to_ergg(x, m)
      [] starting = "eV/atom" /\ ending = "erg/g" -> Econvert_eVatom_to_ergg(x, m)
      [] starting = "eV/atom" /\ ending = "J/g" -> Econvert_eVatom_to_Jg(x, m)
      [] starting = "eV/atom" /\ ending = "Ry/atom" -> Econvert_eVatom_to_Ryatom(x)
      [] starting = "erg/g" /\ ending = "Ry/atom" -> Econvert_ergg_to_Ryatom(x, m)
      [] starting = "J/mol/K" /\ ending = "kB/atom" -> Sconvert_JmolK_to_kBatom(x)
      [] starting = "kB/atom" /\ ending = "J/mol/K" -> Sconvert_kBatom_to_JmolK(x)
      [] starting = "J/g/K" /\ ending = "erg/g/K" -> Sconvert_JgK_to_erggK(x)
      [] starting = "erg/g/K" /\ ending = "J/g/K" -> Sconvert_erggK_to_JgK(x)
      [] starting = "Mbar-cc/g/K" /\ ending = "J/g/K" -> Sconvert_MbarccgK_to_JgK(x)
      [] starting = "J/g/K" /\ ending = "Mbar-cc/g/K" -> Sconvert_JgK_to_MbarccgK(x)
      [] starting = "kJ/mol" /\ ending = "meV/atom" -> Econvert_kJmol_to_meVatom(x)
      [] starting = "meV/atom" /\ ending = "kJ/mol" -> Econvert_meVatom_to_kJmol(x)

\* the unit of factor column c in a header line the builder writes
HeaderUnit(line, c) == rstrip(SelectSeq(line, NonEmpty)[c + 1]).w

\* the four factor cells of the row of a mass when each column holds the
\* conversion its header pair names, computed once for every mass of the model
NamedCellsOf ==
    [kind \in TableKinds |-> [m \in MassValues |->
        [c \in 1..4 |-> Format(RowFormat(kind)[c + 1],
                               NamedConversion(HeaderUnit(StartingLine(kind), c),
                                               HeaderUnit(EndingLine(kind), c), One, m))]]]

\* the data rows of a table file, and the cell of factor column c of a row
DataRows(table) == SubSeq(table.lines, 4, Len(table.lines))
FactorCell(row, c) == rstrip(row[c + 3])

\* C1 (as the spec states it): in the table a builder call has just written,
\* every factor cell of every element row is the engine's conversion of 1 at
\* the row's atomic mass under the conversion named by the column's header pair
C1_FactorsAsHeadersName ==
    (built.kind # "" /\ built.outcome.kind = "returns" /\ built.module = ModuleOf(prog)) =>
        \E read \in {create_atomic_mass_list(built.module, fs_list)} :
            read.kind = "returns" =>
            \A i \in 1..NumElements : \A c \in 1..4 :
                FactorCell(DataRows(fs_tables[built.kind])[i], c)
                    = NamedCellsOf[built.kind][read.value[i]][c]

\* the decision table of the spec on (starting unit, ending unit); "" where it
\* has no row
DecisionTable(starting, ending) ==
    CASE starting \in {Word("erg/g/K"), Word("Mbar-cc/g/K"), Word("J/mol/K")} ->
           "entropy_conversion_table"
      [] starting = Word("J/g/K") ->
           IF ending = Word("kB/atom") THEN "entropy_conversion_table"
           ELSE "entropy_conversion_table_reverse"
      [] starting = Word("kB/atom") -> "entropy_conversion_table_reverse"
      [] starting \in {Word("J/g"), Word("Ry/atom")} -> "energy_conversion_table"
      [] starting = Word("erg/g") ->
           IF ending = Word("eV/atom") THEN "energy_conversion_table"
           ELSE "energy_conversion_table_reverse"
      [] starting = Word("eV/atom") -> "energy_conversion_table_reverse"
      [] OTHER -> ""

\* C2 (as the spec states it): the table of every dispatched request is the one
\* the decision table gives for its starting and ending unit; in particular a
\* request that starts from Ry/atom is looked up in energy_conversion_table
C2_TableByDecisionTable ==
    lookup.request # <<>> =>
        lookup.table = DecisionTable(lookup.request[2], lookup.request[3])

\* the factor columns of a table file whose header pair is (starting, ending)
JointColumns(table, starting, ending) ==
    {c \in 1..4 : /\ Word(HeaderUnit(table.lines[1], c)) = starting
                  /\ Word(HeaderUnit(table.lines[2], c)) = ending}
\* a table file as a builder call that completes leaves it
Complete(table) == table.exists /\ Len(table.lines) = NumElements + 3

\* C3 (as the spec states it): a lookup in a complete table, for an atomic
\* number 1..118 and a pair that heads one of the table's columns, shows the
\* cell of the element's row in the column that matches on both header lines
C3_JointColumnShown ==
    (/\ lookup.table # ""
     /\ Complete(fs_tables[lookup.table])
     /\ lookup.request[1] \in AtomicNumbers
     /\ JointColumns(fs_tables[lookup.table], lookup.request[2], lookup.request[3]) # {}) =>
        /\ lookup.outcome.kind = "shows"
        /\ \E c \in JointColumns(fs_tables[lookup.table], lookup.request[2], lookup.request[3]) :
              rstrip(lookup.outcome.value[4])
                  = FactorCell(DataRows(fs_tables[lookup.table])[lookup.request[1]], c)

\* "{:.6f}".format(1 / m), the text of 1/m the forward entropy table keeps
InverseMassCell == [m \in MassValues |-> Format6f(FDiv(One, m))]

\* C4 (as the spec states it): a lookup from J/mol/K to J/g/K for an element
\* 1..118, in tables built from a list that gives the element the mass m, shows
\* the factor 1/m
C4_JmolKtoJgKShowsInverseMass ==
    (/\ lookup.request # <<>>
     /\ lookup.request[1] \in AtomicNumbers
     /\ lookup.request[2] = Word("J/mol/K") /\ lookup.request[3] = Word("J/g/K")
     /\ Complete(fs_tables["entropy_conversion_table"])
     /\ built.outcome.kind = "returns") =>
        \E read \in {create_atomic_mass_list(built.module, fs_list)} :
            read.kind = "returns" =>
                /\ lookup.outcome.kind = "shows"
                /\ rstrip(lookup.outcome.value[4])
                       = InverseMassCell[read.value[lookup.request[1]]]
\* where the claim holds: NIST_Conversion shows carbon's factor 1/12.011
C4_ShownByNIST ==
    /\ lookup.module = "NIST_Conversion"
    /\ lookup.request = <<6, Word("J/mol/K"), Word("J/g/K")>>
    /\ lookup.outcome.kind = "shows"
    /\ lookup.outcome.value[4] = DecText(<<0>>, <<0, 8, 3, 2, 5, 7>>)

\* the (starting unit, ending unit) pairs that head a column of some table
HeaderPairs ==
    {<<Word(HeaderUnit(StartingLine(kind), c)), Word(HeaderUnit(EndingLine(kind), c))>> :
        kind \in TableKinds, c \in 1..4}

\* C5 (as the spec states it): a lookup for a pair of supported units that heads
\* no column of any table (for an element 1..118, the table being complete)
\* ends in a reported error: a message is printed and the program goes on (it
\* neither shows a factor nor dies of an exception nobody catches)
C5_UnsupportedPairReported ==
    (/\ lookup.request # <<>>
     /\ lookup.request[2] \in units /\ lookup.request[3] \in units
     /\ <<lookup.request[2], lookup.request[3]>> \notin HeaderPairs
     /\ \/ lookup.table = ""
        \/ /\ lookup.table # ""
           /\ Complete(fs_tables[lookup.table])
           /\ lookup.request[1] \in AtomicNumbers) =>
        /\ lookup.outcome.kind \notin {"shows", "raises"}
        /\ console # ""
\* the part of C5 the code keeps: no factor is shown for such a pair
C5_NoFactorShown ==
    (/\ lookup.request # <<>>
     /\ <<lookup.request[2], lookup.request[3]>> \notin HeaderPairs) =>
        lookup.outcome.kind # "shows"

\* C6 (as the spec states it): no line typed at the lookup prompt makes the
\* process crash: after a line typed at the prompt of NIST_Conversion the user
\* is at a prompt again (the next request, or the question that follows a
\* shown factor), and scripts.get_factor_from_table does not die of an
\* exception either
C6_QueriesNeverCrash ==
    [][/\ pc = "prompt" => pc' \in {"prompt", "confirm"}
       /\ (pc = "idle" /\ prog' = "scripts") => pc' # "crashed"]_vars

\* C11: the table a builder call that completed has written is the Starting
\* Unit line, the Ending Unit line and the Element/AMass line followed by
\* exactly 118 rows whose first fields are the atomic numbers 1, 2, ..., 118
C11_CompletedTableShape ==
    (built.kind # "" /\ built.outcome.kind = "returns") =>
        \E lines \in {fs_tables[built.kind].lines} :
            /\ Len(lines) = 121
            /\ lines[1][1] = Word("Starting Unit")
            /\ lines[2][1] = Word("Ending Unit")
            /\ lines[3] = <<Word("Element"), Word(""), WithNL(Word("AMass"))>>
            /\ \A n \in 1..118 : lines[n + 3][1] = IntText(n)
\* a builder call has completed
C11_TableBuilt ==
    /\ built.kind = "energy_conversion_table_reverse"
    /\ built.outcome.kind = "returns"
    /\ fs_tables[built.kind].exists

\* C13: when the next builder of a run finds the atomic mass list missing, or
\* reads the list and cannot open its table file for writing, it prints its
\* message and exits with -1 leaving every table file as it was; after an exit
\* the run does nothing more (no further builder, no prompt)
C13_FailedBuildEndsRun ==
    [][/\ (/\ pc = "build"
           /\ \/ ~fs_list.exists
              \/ /\ create_atomic_mass_list(ModuleOf(prog), fs_list).kind = "returns"
                 /\ ~fs_tables[BuildOrder[stage]].writable) =>
              /\ built'.outcome.kind = "exits" /\ built'.outcome.code = -1
              /\ built'.kind = BuildOrder[stage]
              /\ fs_tables' = fs_tables
              /\ pc' = "exited"
              /\ console' = built'.outcome.msg
       /\ pc = "exited" => (pc' = "idle" /\ fs_tables' = fs_tables)]_vars
\* the third builder of a run has found its file unwritable after the first two
\* tables were written
C13_ThirdBuilderExited ==
    /\ pc = "exited"
    /\ built.kind = "energy_conversion_table" /\ built.outcome.kind = "exits"
    /\ ~fs_tables["energy_conversion_table"].exists
    /\ ~fs_tables["energy_conversion_table_reverse"].exists
    /\ Complete(fs_tables["entropy_conversion_table_reverse"])
\* the first builder of a run has found the list missing
C13_ListMissing ==
    /\ pc = "exited"
    /\ built.kind = "entropy_conversion_table" /\ built.outcome.kind = "exits"
    /\ ~fs_list.exists
    /\ ~fs_tables["entropy_conversion_table"].exists

\* C14: in a run of NIST_Conversion.main the builders run in the order entropy,
\* entropy reverse, energy, energy reverse, each writing its own table only;
\* the prompt is first reached from the fourth builder's completion; and from
\* the first prompt on no table file changes
C14_BuildsThenLookups ==
    [][prog = "NIST_Conversion" =>
          /\ pc = "build" =>
                /\ built'.kind = <<"entropy_conversion_table",
                                   "entropy_conversion_table_reverse",
                                   "energy_conversion_table",
                                   "energy_conversion_table_reverse">>[stage]
                /\ \A kind \in TableKinds \ {built'.kind} :
                      fs_tables'[kind] = fs_tables[kind]
                /\ pc' = "build" => (stage' = stage + 1 /\ built'.outcome.kind = "returns")
                /\ pc' = "prompt" => (stage = 4 /\ built'.outcome.kind = "returns")
          /\ (pc' = "prompt" /\ pc # "build") => pc \in {"prompt", "confirm"}
          /\ pc \in {"prompt", "confirm"} =>
                (fs_tables' = fs_tables /\ pc' # "build")
          /\ pc' = "build" => stage' \in 2..4]_vars
\* a run of NIST_Conversion is at its prompt, the four tables written
C14_AtPromptAfterBuilds ==
    /\ prog = "NIST_Conversion" /\ pc = "prompt"
    /\ stage = 4 /\ built.kind = "energy_conversion_table_reverse"
    /\ \A kind \in TableKinds : Complete(fs_tables[kind])

\* C15 (as the spec states it): a lookup whose element has no row in the table
\* it is dispatched to prints a message and leaves the user at a prompt to
\* retry
C15_ElementNotFoundReported ==
    (/\ lookup.table # ""
     /\ fs_tables[lookup.table].exists
     /\ \A k \in 1..Len(fs_tables[lookup.table].lines) :
           fs_tables[lookup.table].lines[k][1] # str(lookup.request[1])) =>
        /\ console # ""
        /\ pc = "prompt"

\* whether the first token of a line resolves to an element: it is an integer,
\* or a symbol or name some line of the list file has
Resolves(token, list_file) ==
    \/ IsIntText(token)
    \/ \E i \in 1..Len(list_file.lines) : ScanEvent(list_file.lines[i], token) = "match"
\* the atomic number a token that resolves names
NamedElement(token) == IF IsIntText(token) THEN int(token) ELSE token.n

\* C16 (as the spec states it): in NIST_Conversion a lookup is started only for
\* a line of exactly three tokens whose first token resolves to an element and
\* whose other two are supported units; after any other line the prompt is
\* repeated and nothing is looked up
C16_LookupOnlyForWellFormedLine ==
    [][(prog = "NIST_Conversion" /\ pc = "prompt") =>
          \/ /\ Len(lookup'.line) = 3
             /\ Resolves(lookup'.line[1], fs_list)
             /\ lookup'.line[2] \in units /\ lookup'.line[3] \in units
          \/ /\ lookup'.table = ""
             /\ pc' = "prompt"]_vars

\* C17: when main.py's AM mode completes, update_atomic_mass and then the four
\* builders have run in it and no lookup: the list file is the one the update
\* of this run wrote from the reference file, and every table file is exactly
\* what its builder writes from that list (the header lines and, for each
\* element, its mass and its four factors)
C17_TablesFreshAfterAM ==
    (prog = "main" /\ pc = "ended") =>
        /\ lookup = NoLookup
        /\ updated.module = "scripts" /\ updated.outcome.kind = "returns"
        /\ fs_list = update_atomic_mass("scripts", fs_howerton, NoFile).list
        /\ \A kind \in TableKinds :
              \E fresh \in {create_conversion_table("scripts", kind, fs_list, NoFile)} :
                 /\ fresh.outcome.kind = "returns"
                 /\ Len(fresh.table.lines) = 121
                 /\ fs_tables[kind] = fresh.table
\* the AM mode has completed
C17_AMCompleted ==
    /\ prog = "main" /\ pc = "ended"
    /\ built.kind = "energy_conversion_table_reverse" /\ built.module = "scripts"
    /\ Complete(fs_tables["entropy_conversion_table"])

\* C18 (as the claim states it): the element of every lookup NIST_Conversion
\* starts is the one the first token of the accepted line names
C18_ElementOfAcceptedLine ==
    (lookup.module = "NIST_Conversion" /\ lookup.table # "") =>
        /\ Resolves(lookup.line[1], fs_list)
        /\ lookup.request[1] = NamedElement(lookup.line[1])

\* the sets starting_index and ending_index hold once the header lines of a
\* table file are read, and the columns common to both
HeaderIndex(mod, table, label, unit) ==
    UNION {Counts(LineData(mod, table.lines[j]), unit) :
              j \in {j \in 1..Len(table.lines) :
                        At(LineData(mod, table.lines[j]), 0) = Word(label)}}
UnitIndex(mod, table, starting, ending) ==
    common_member(HeaderIndex(mod, table, "Starting Unit", starting),
                  HeaderIndex(mod, table, "Ending Unit", ending))

\* C19: in every table file a builder has written the four header pairs are
\* pairwise distinct and, for every pair of units and either module, the
\* Starting Unit line and the Ending Unit line have at most one column in
\* common; every lookup made has had at most one joint column over the whole
\* file and a single possible outcome
C19_AtMostOneJointColumn ==
    /\ \A kind \in TableKinds :
          Len(fs_tables[kind].lines) >= 2 =>
              /\ \A c, d \in 1..4 :
                    (/\ HeaderUnit(fs_tables[kind].lines[1], c)
                            = HeaderUnit(fs_tables[kind].lines[1], d)
                     /\ HeaderUnit(fs_tables[kind].lines[2], c)
                            = HeaderUnit(fs_tables[kind].lines[2], d)) => c = d
              /\ \A mod \in Modules :
                    \E first \in {LineData(mod, fs_tables[kind].lines[1])} :
                    \E second \in {LineData(mod, fs_tables[kind].lines[2])} :
                       \A s \in units : \A e \in units :
                          Cardinality(common_member(Counts(first, s), Counts(second, e))) <= 1
    /\ (lookup.table # "" /\ lookup.request[1] \in AtomicNumbers) =>
          /\ Cardinality(UnitIndex(lookup.module, fs_tables[lookup.table],
                                   lookup.request[2], lookup.request[3])) <= 1
          /\ Cardinality(access_factor_from_table(lookup.module, fs_tables[lookup.table],
                             fs_list, lookup.request[1], lookup.request[2],
                             lookup.request[3])) = 1
\* a lookup has found its single joint column in a table with repeated units
C19_JointColumnFound ==
    /\ lookup.table = "entropy_conversion_table"
    /\ lookup.request = <<6, Word("J/g/K"), Word("kB/atom")>>
    /\ lookup.outcome.kind = "shows"
    /\ UnitIndex(lookup.module, fs_tables[lookup.table], Word("J/g/K"), Word("kB/atom")) = {3}
    /\ Cardinality(HeaderIndex(lookup.module, fs_tables[lookup.table], "Ending Unit",
                               Word("kB/atom"))) = 3

(***************************************************************************)
(* The Conversion Engine on its own: a quantity is converted from unit to  *)
(* unit by the engine's functions, at most MaxSteps times.                 *)
(***************************************************************************)
MaxSteps == 2

\* the (starting unit, ending unit) pairs the engine has a function for
EngineFunctions ==
    {<<"J/mol/K", "kB/atom">>, <<"kB/atom", "J/mol/K">>,
     <<"erg/g/K", "kB/atom">>, <<"kB/atom", "erg/g/K">>,
     <<"J/g/K", "kB/atom">>, <<"kB/atom", "J/g/K">>,
     <<"Mbar-cc/g/K", "kB/atom">>, <<"kB/atom", "Mbar-cc/g/K">>,
     <<"J/mol/K", "J/g/K">>, <<"J/g/K", "J/mol/K">>,
     <<"J/g/K", "erg/g/K">>, <<"erg/g/K", "J/g/K">>,
     <<"Mbar-cc/g/K", "J/g/K">>, <<"J/g/K", "Mbar-cc/g/K">>,
     <<"kJ/mol", "meV/atom">>, <<"meV/atom", "kJ/mol">>,
     <<"eV/atom", "erg/g">>, <<"erg/g", "eV/atom">>,
     <<"J/g", "eV/atom">>, <<"eV/atom", "J/g">>,
     <<"Ry/atom", "erg/g">>, <<"erg/g", "Ry/atom">>,
     <<"Ry/atom", "eV/atom">>, <<"eV/atom", "Ry/atom">>}
EngineUnits == {f[1] : f \in EngineFunctions}
\* the values and the atomic masses the quantity starts from
EngineValues == {One, IntToFloat(3), FloatLit(25, 1), IntToFloat(1000), FloatLit(7, 3)}
EngineMasses == MassValues

InitEngine ==
    /\ fs_howerton = NoFile
    /\ fs_list = NoFile
    /\ fs_tables = [kind \in TableKinds |-> NoFile]
    /\ pc = "idle"
    /\ prog = ""
    /\ stage = 1
    /\ local_element = Unbound
    /\ console = ""
    /\ lookup = NoLookup
    /\ updated = NoUpdate
    /\ built = NoBuild
    /\ loaded = NoLoad
    /\ quantity \in {[unit |-> u, value |-> x, mass |-> m, first |-> x, path |-> <<u>>] :
                        u \in EngineUnits, x \in EngineValues, m \in EngineMasses}

\* one call of the engine function from the quantity's unit to the unit ending
Convert(ending) ==
    /\ <<quantity.unit, ending>> \in EngineFunctions
    /\ Len(quantity.path) <= MaxSteps
    /\ \E r \in {NamedConversion(quantity.unit, ending, quantity.value, quantity.mass)} :
          quantity' = [quantity EXCEPT !.unit = ending, !.value = r,
                                       !.path = Append(quantity.path, ending)]
    /\ UNCHANGED <<fs_howerton, fs_list, fs_tables, pc, prog, stage, local_element,
                   console, lookup, updated, built, loaded>>

NextEngine == \E ending \in EngineUnits : Convert(ending)

SpecEngine == InitEngine /\ [][NextEngine]_vars

\* |v - x| <= x / 10^digits, for doubles v and x > 0
WithinRelative(v, x, digits) ==
    LET low == Min(v.e, x.e)
        a == ShiftL(v.m, v.e - low)
        b == ShiftL(x.m, x.e - low)
        d == IF BigCmp(a, b) >= 0 THEN BigSub(a, b) ELSE BigSub(b, a)
    IN BigCmp(BigMul(d, Pow10Big(digits)), b) <= 0

\* the quantity has gone from a unit to another and back
RoundTrip ==
    /\ Len(quantity.path) = 3
    /\ quantity.path[3] = quantity.path[1]

\* C7 (as the spec states it): converting a value to another unit and back
\* gives exactly the value
C7_ExactInverses == RoundTrip => quantity.value = quantity.first
\* C7 (amended): converting a value to another unit and back gives the value
\* within the relative tolerance 1e-9, and gives 1 exactly for the value 1
\* taken from Ry/atom to eV/atom and back
C7_InversesWithinTolerance ==
    RoundTrip =>
        /\ WithinRelative(quantity.value, quantity.first, 9)
        /\ (quantity.path = <<"Ry/atom", "eV/atom", "Ry/atom">> /\ quantity.first = One) =>
              quantity.value = One
\* a round trip that does not give the value back exactly
C7_InexactRoundTrip ==
    /\ RoundTrip
    /\ quantity.value # quantity.first
    /\ WithinRelative(quantity.value, quantity.first, 9)

\* the triangles of C20: <<from, through, to>>
Triangles ==
    {<<"erg/g/K", "J/g/K", "kB/atom">>, <<"Mbar-cc/g/K", "J/g/K", "kB/atom">>,
     <<"J/mol/K", "J/g/K", "kB/atom">>, <<"Ry/atom", "eV/atom", "erg/g">>}
\* the first value of the quantity converted by the function from the first to
\* the last unit of its path
Direct ==
    NamedConversion(quantity.path[1], quantity.path[3], quantity.first, quantity.mass)

\* C20 (as the claim states it): on each of the four triangles, converting
\* through the intermediate unit gives the same double as converting directly
C20_PathIndependent ==
    quantity.path \in Triangles => quantity.value = Direct
\* C20 (amended): on the three entropy triangles the two results agree within
\* the relative tolerance 1e-9, on the triangle Ry/atom -> eV/atom -> erg/g
\* within 1e-5
C20_PathsAgreeWithinTolerance ==
    quantity.path \in Triangles =>
        \E direct \in {Direct} :
            IF quantity.path[1] = "Ry/atom"
            THEN WithinRelative(quantity.value, direct, 5)
            ELSE WithinRelative(quantity.value, direct, 9)
\* the Ry/atom triangle's two results differ by more than rounding
C20_RydbergPathsDiffer ==
    /\ quantity.path = <<"Ry/atom", "eV/atom", "erg/g">>
    /\ ~WithinRelative(quantity.value, Direct, 6)
    /\ WithinRelative(quantity.value, Direct, 5)

(***************************************************************************)
(* Forward and reverse tables, checked under Spec                          *)
(***************************************************************************)
\* the forward table of each kind and its reverse
KindPairs ==
    {<<"entropy_conversion_table", "entropy_conversion_table_reverse">>,
     <<"energy_conversion_table", "energy_conversion_table_reverse">>}
\* the texts a forward and a reverse table keep in the same factor column of
\* the same row, for the masses of the model, and the product of their values
\* as Python computes it: float(forward) * float(reverse)
CellPairs ==
    {<<RowCellsOf[p[1]][m][c + 1], RowCellsOf[p[2]][m][c + 1]>> :
        p \in KindPairs, m \in MassValues, c \in 1..4}
ProductOf == [p \in CellPairs |-> FMul(float(p[1]), float(p[2]))]

\* the current run has built all four tables from the list file as it is
AllBuiltInThisRun ==
    \/ prog = "NIST_Conversion" /\ pc \in {"prompt", "confirm"}
    \/ prog = "main" /\ pc = "ended"
\* column c of the reverse table is headed by the swapped pair of column c of
\* the forward table
HeadersSwapped(forward, reverse, c) ==
    /\ HeaderUnit(forward.lines[1], c) = HeaderUnit(reverse.lines[2], c)
    /\ HeaderUnit(forward.lines[2], c) = HeaderUnit(reverse.lines[1], c)
\* the factor cells of column c in the rows of element n of the two tables
FactorPair(forward, reverse, n, c) ==
    <<FactorCell(DataRows(forward)[n], c), FactorCell(DataRows(reverse)[n], c)>>

\* C8 (as the spec states it): in forward and reverse tables built from the
\* same list every column's header pair is swapped and, for every element, the
\* product of the two stored factors is 1
C8_ProductsAreOne ==
    AllBuiltInThisRun =>
        \A p \in KindPairs : \A c \in 1..4 :
            /\ HeadersSwapped(fs_tables[p[1]], fs_tables[p[2]], c)
            /\ \A n \in AtomicNumbers :
                  \E cells \in {FactorPair(fs_tables[p[1]], fs_tables[p[2]], n, c)} :
                     cells \in CellPairs /\ ProductOf[cells] = One
\* C8 (amended): ... the product of the two stored factors is 1 within the
\* relative tolerance 1e-3
C8_ProductsNearOne ==
    AllBuiltInThisRun =>
        \A p \in KindPairs : \A c \in 1..4 :
            /\ HeadersSwapped(fs_tables[p[1]], fs_tables[p[2]], c)
            /\ \A n \in AtomicNumbers :
                  \E cells \in {FactorPair(fs_tables[p[1]], fs_tables[p[2]], n, c)} :
                     cells \in CellPairs /\ WithinRelative(ProductOf[cells], One, 3)
\* the four tables are built and a stored pair of factors does not multiply to 1
C8_InexactProduct ==
    /\ AllBuiltInThisRun
    /\ \E cells \in {FactorPair(fs_tables["entropy_conversion_table"],
                                fs_tables["entropy_conversion_table_reverse"], 118, 4)} :
          /\ cells = <<DecText(<<0>>, <<0, 0, 3, 4, 0, 1>>), DecText(<<2, 9, 4>>, <<0, 0, 0, 0, 0, 0>>)>>
          /\ ProductOf[cells] # One
          /\ WithinRelative(ProductOf[cells], One, 3)

(***************************************************************************)
(* The Atomic Mass Registry on its own: over a reference file of at most   *)
(* MaxOverrides lines (or none), either module's update_atomic_mass and    *)
(* create_atomic_mass_list are called in any order.                        *)
(***************************************************************************)
MaxOverrides == 2

\* the atomic numbers and the masses on the lines of the reference files
OverrideNumbers == {6, 0, -1, 119}
ReferenceMassTexts == {DecText(<<1>>, <<0, 0, 7, 9, 8>>), IntText(12), IntText(0)}
OverrideLines == {OverrideLine(n, t) : n \in OverrideNumbers, t \in ReferenceMassTexts}
RECURSIVE LinesUpTo(_)
LinesUpTo(k) ==
    IF k = 0 THEN {<<>>}
    ELSE LinesUpTo(k - 1)
             \cup {Append(lines, l) : lines \in LinesUpTo(k - 1), l \in OverrideLines}
ReferenceFiles == {File(lines) : lines \in LinesUpTo(MaxOverrides)} \cup {NoFile}

InitMass ==
    /\ fs_howerton \in ReferenceFiles
    /\ fs_list \in {ShippedList, NoFile}
    /\ fs_tables = [kind \in TableKinds |-> NoFile]
    /\ pc = "idle"
    /\ prog = ""
    /\ stage = 1
    /\ local_element = Unbound
    /\ console = ""
    /\ lookup = NoLookup
    /\ updated = NoUpdate
    /\ built = NoBuild
    /\ loaded = NoLoad
    /\ quantity = NoQuantity

\* a call of mod.update_atomic_mass()
UpdateAtomicMass(mod) ==
    /\ \E r \in {update_atomic_mass(mod, fs_howerton, fs_list)} :
          /\ fs_list' = r.list
          /\ updated' = Updated(mod, fs_howerton, r, updated)
          /\ console' = Said(r.outcome, "")
    /\ loaded' = NoLoad
    /\ UNCHANGED <<fs_howerton, fs_tables, pc, prog, stage, local_element, lookup, built,
                   quantity>>

\* a call of mod.create_atomic_mass_list()
CreateAtomicMassList(mod) ==
    /\ \E r \in {create_atomic_mass_list(mod, fs_list)} :
          /\ loaded' = [module |-> mod, outcome |-> r]
          /\ console' = Said(r, "")
    /\ UNCHANGED <<fs_howerton, fs_list, fs_tables, pc, prog, stage, local_element, lookup,
                   updated, built, quantity>>

NextMass ==
    \/ \E mod \in Modules : UpdateAtomicMass(mod)
    \/ \E mod \in Modules : CreateAtomicMassList(mod)

SpecMass == InitMass /\ [][NextMass]_vars

\* the lines of the reference file, by number, that name the atomic number n
OverridesOf(lines, n) == {i \in 1..Len(lines) : int(lines[i][1]) = n}
\* the mass a list file written by the module mod keeps for the atomic number n
ListedMass(mod, list_file, n) ==
    FloatOfText(rstrip(At(list_file.lines[n], MassPiece(mod))))

\* the greatest number of a nonempty set
LastOf(S) == CHOOSE i \in S : \A j \in S : j <= i

\* C9 (as the spec states it): in the list an update_atomic_mass call has
\* written, the entry of every atomic number named on a line of the reference
\* file is the mass of the last such line, and the entry of every atomic number
\* named on no line is the default atomic weight
C9_OverridesAndDefaults ==
    (updated.outcome.kind = "returns" /\ updated.module # "") =>
        \A n \in AtomicNumbers :
            \E named \in {OverridesOf(updated.lines, n)} :
                ListedMass(updated.module, fs_list, n) =
                    IF named = {} THEN md_atomic_weight(n)
                    ELSE FloatOfText(rstrip(updated.lines[LastOf(named)][3]))
\* the part of C9 the code keeps: the same for reference files all of whose
\* lines name an atomic number 1..118
C9_ForAtomicNumbersOnly ==
    (\A i \in 1..Len(updated.lines) : int(updated.lines[i][1]) \in AtomicNumbers) =>
        C9_OverridesAndDefaults
\* where the claim holds: two lines name carbon, the last one wins
C9_LastLineWins ==
    /\ updated.outcome.kind = "returns"
    /\ updated.lines = <<OverrideLine(6, IntText(12)),
                         OverrideLine(6, DecText(<<1>>, <<0, 0, 7, 9, 8>>))>>
    /\ ListedMass(updated.module, fs_list, 6) = FloatOf[DecText(<<1>>, <<0, 0, 7, 9, 8>>)]
    /\ ListedMass(updated.module, fs_list, 1) = md_atomic_weight(1)

\* C10: whenever create_atomic_mass_list returns, it returns exactly 118
\* values, and once an update_atomic_mass call has written the list these are,
\* entry by entry, the masses the last such call wrote
C10_LoadedListIsPersisted ==
    (loaded.module # "" /\ loaded.outcome.kind = "returns") =>
        /\ Len(loaded.outcome.value) = NumElements
        /\ updated.wrote # "" => loaded.outcome.value = updated.persisted
\* a list with an override has been written and read back
C10_OverrideReadBack ==
    /\ loaded.module # ""
    /\ loaded.outcome.kind = "returns"
    /\ updated.wrote # ""
    /\ updated.lines # <<>>
    /\ loaded.outcome.value[6] = FloatOf[DecText(<<1>>, <<0, 0, 7, 9, 8>>)]
    /\ loaded.outcome.value[1] = md_atomic_weight(1)

\* C12: while the reference file is absent, a call of update_atomic_mass ends
\* by reporting the missing file and exiting with -1, and the list file stays
\* exactly as it was
C12_MissingReferenceLeavesList ==
    [][~fs_howerton.exists =>
          /\ fs_list' = fs_list
          /\ updated' # updated =>
                /\ updated'.outcome.kind = "exits"
                /\ updated'.outcome.code = -1
                /\ updated'.outcome.msg = "There is no such file called howerton_atomic_masses"]_vars
\* an update has failed for the missing reference file, the list there before
C12_UpdateFailedListKept ==
    /\ ~fs_howerton.exists
    /\ updated.module # ""
    /\ updated.outcome.kind = "exits"
    /\ fs_list = ShippedList

\* C21 (as the spec states it): in the masses an update_atomic_mass call has
\* written out, every entry that differs from the default atomic weight of its
\* element belongs to an atomic number that a line of the reference file names
C21_OnlyOwnEntryChanges ==
    (updated.module # "" /\ updated.outcome.kind = "returns") =>
        \A n \in AtomicNumbers :
            updated.persisted[n] # md_atomic_weight(n) =>
                OverridesOf(updated.lines, n) # {}
\* the part of C21 the code keeps: the same for reference files all of whose
\* lines name an atomic number 1..118
C21_ForAtomicNumbersOnly ==
    (\A i \in 1..Len(updated.lines) : int(updated.lines[i][1]) \in AtomicNumbers) =>
        C21_OnlyOwnEntryChanges

\* the four table builders of the two modules, called on the same list file and
\* the same table files, end the same way and leave the same tables
SameTables ==
    \A kind \in TableKinds :
        create_conversion_table("NIST_Conversion", kind, fs_list, fs_tables[kind])
            = create_conversion_table("scripts", kind, fs_list, fs_tables[kind])
\* access_factor_from_table of the two modules, called for the request of this
\* run on the same table file and the same list file, has the same outcomes
SameLookups ==
    (lookup.table # "" /\ lookup.request[1] \in AtomicNumbers) =>
        access_factor_from_table("NIST_Conversion", fs_tables[lookup.table], fs_list,
                                 lookup.request[1], lookup.request[2], lookup.request[3])
            = access_factor_from_table("scripts", fs_tables[lookup.table], fs_list,
                                       lookup.request[1], lookup.request[2], lookup.request[3])

\* C22 (as the spec states it): given the same atomic mass list and the same
\* table contents, the table builders of the two modules produce the same
\* tables and access_factor_from_table of the two modules has the same outcome
\* for every request (the Conversion Engine functions of the two modules are
\* the same text, and are one operator each here)
C22_CopiesEquivalent == SameTables /\ SameLookups
====
